---- MODULE Spec2Model ----
(***************************************************************************)
(* Home Weather: trigger evaluation and announcement dispatch.             *)
(*                                                                         *)
(* The module models TTSTriggerManager (tts_triggers.py), send_tts         *)
(* (tts_notifications.py) and HomeWeatherAutomation (automation.py).       *)
(* Each part of the program has its own specification over the shared      *)
(* variables; the variables of the other parts stay at their idle value.   *)
(***************************************************************************)
EXTENDS Integers, Sequences, FiniteSets, TLC

VARIABLES
    \* ---- upcoming-precipitation poll (TTSTriggerManager) ----
    now,                    \* host clock, minutes
    hourly_forecast,        \* weather_data["hourly_forecast"]
    current_condition,      \* weather_data["current"] condition, "none" when current is None
    media_players,          \* config["media_players"] is non-empty
    minutes_before,         \* captured by _setup_upcoming_change_trigger
    upcoming_alert_fired,   \* self._upcoming_alert_fired
    poll_tasks,             \* poll tasks suspended in their dispatch
    precip_dispatched,      \* the dispatches started: [key, now, t] of each
    poll_outcome,           \* how the last poll task to end ended
    \* ---- current-change trigger (TTSTriggerManager) ----
    weather_state,          \* hass.states.get(weather_entity): its state, or NoState
    last_condition,         \* self._last_condition
    change_armed,           \* the state-change listener is installed
    change_log,             \* the events delivered to _state_changed and what each did
    \* ---- time-based trigger (TTSTriggerManager) ----
    days_of_week,           \* tts_config["days_of_week"], the names as written
    start_time,             \* tts_config["start_time"] split at ":" and read as integers
    end_time,               \* tts_config["end_time"] likewise
    hour_pattern,           \* tts_config["hour_pattern"]
    minute_offset,          \* tts_config["minute_offset"]
    time_armed,             \* the time-change listener is installed
    tick,                   \* the last clock minute the host went through
    sched_fired,            \* _check_and_fire created the forecast task on that tick
    \* ---- dispatch (send_tts) ----
    sinks,                  \* media_players_config
    message_blank,          \* the message is empty or only white space
    d_pc,                   \* where the send_tts coroutine is suspended
    d_i,                    \* index of the sink being processed
    call_log,               \* the calls and waits made, in order
    d_raised,               \* send_tts ended by raising
    volume_override,        \* the volume_override argument, NoVolume for None
    volume_levels,          \* the volume_level of each volume_set call, in order
    \* ---- trigger lifecycle (TTSTriggerManager.async_setup / async_unload) ----
    life_cfg,               \* the configuration async_setup reads
    unsub_callbacks,        \* self._unsub_callbacks
    registered_webhooks,    \* self._registered_webhooks
    host_subs,              \* timers and listeners installed in the host
    host_webhooks,          \* webhook ids registered in the host
    next_id,                \* identity of the next subscription handle
    release_count,          \* handle id -> calls of its release
    reg_count,              \* webhook id -> registrations that succeeded
    unreg_count,            \* webhook id -> calls of async_unregister
    life_ops,               \* the async_setup / async_unload calls made, in order
    unload_info,            \* the last async_unload: entries held, calls made, failures, raised
    setup_added,            \* host resources the last async_setup installed
    handler_names,          \* webhook id -> the personal name its handler was made with
    setup_outcome,          \* the last async_setup: raised, the kind that failed, kinds armed
    tick_tasks,             \* forecast tasks the last matching clock tick created
    \* ---- automation lifecycle (HomeWeatherAutomation.async_start / async_stop) ----
    auto_cfg,               \* the stored configuration async_start reads
    is_running,             \* self._is_running
    listeners,              \* self._listeners
    auto_subs,              \* timers and listeners installed in the host
    auto_webhooks,          \* webhook ids registered in the host
    auto_next_id,           \* identity of the next listener handle
    auto_ops,               \* the async_start / async_stop calls made, in order
    auto_raised,            \* the last call ended by raising
    \* ---- sensor trigger (_setup_sensor_triggers / _sensor_changed) ----
    sensor_triggers,        \* tts_config["sensor_triggers"]
    trigger_map,            \* entity id -> trigger state, built when arming
    sensor_armed,           \* the state-change subscription is installed
    sensor_states,          \* the host's state of each entity
    sensor_log,             \* the state changes so far: [entity, old, new, armed, fired]
    \* ---- webhook requests (_handle_webhook / _fire_webhook_forecast) ----
    hook_names,             \* registered webhook id -> its configured personal name
    hook_media,             \* media_players is non-empty
    last_triggered,         \* hass.data[WEBHOOK_LAST_TRIGGERED_KEY]: id -> timestamp
    hook_clock,             \* datetime.utcnow()
    hook_log,               \* the requests handled so far
    \* ---- AI rewrite (send_tts_with_ai_rewrite) ----
    ai_cfg,                 \* use_ai_rewrite, ai_task_entity and what the AI call gives
    original,               \* the message the trigger built
    final_message,          \* the message handed to send_tts
    \* ---- overlapping firings (tasks on the host's event loop) ----
    firings,                \* trigger -> where its announcement task stands: [pc, i]
    overlap_log,            \* the sink calls made by either task, in order
    \* ---- announcements around async_unload ----
    tasks,                  \* the announcement tasks started: [left, born, last_call]
    last_event,             \* the last event the host delivered: the announcements it
                            \* started, and at = 1 + the lifecycle calls made before it
    \* ---- message builders (build_scheduled_forecast / build_webhook_message) ----
    snapshot,               \* weather_data: current, hourly_forecast, daily_forecast
    msg_now,                \* dt_util.now(), minutes
    built,                  \* the last builder call: which, whether it raised, its parts
    \* ---- spoken numbers and times (_spell_number, _spell_time, ----
    \* ---- build_upcoming_change_message)                        ----
    arg,                    \* the call's arguments: [fn, a, b]
    spoken,                 \* what the call returned: [text, phrase]
    \* ---- time-based trigger (HomeWeatherAutomation.check_schedule) ----
    stored_schedule,        \* the schedule keys of the stored configuration
    interval_now,           \* the now of the last interval tick
    schedule_outcome,       \* what check_schedule did on that tick
    \* ---- trigger reload (async_unload, async_setup) and the poll ----
    setup_seen,             \* the clock and the alert keys the last async_setup found
    \* ---- HomeWeatherAutomation's handlers and the stored configuration ----
    last_fire,              \* the last handler run: [kind, due, enabled, announced]
    saves,                  \* configuration saves so far
    last_save_at,           \* the lifecycle calls made before the last save, -1 for none
    completed_at,           \* likewise for the save that completed the configuration
    \* ---- storage (HomeWeatherStorage.async_save, handle_set_config) ----
    store_data,             \* self._data
    store_file,             \* what self._store holds
    reloads,                \* trigger reloads (async_unload, async_setup) made by set_config
    last_save               \* the last set_config: its data, what was there before, how it ended

precipVars == <<now, hourly_forecast, current_condition, media_players, minutes_before,
                upcoming_alert_fired, poll_tasks, precip_dispatched, poll_outcome>>

changeVars == <<weather_state, last_condition, change_armed, change_log>>

timeVars == <<days_of_week, start_time, end_time, hour_pattern, minute_offset,
              time_armed, tick, sched_fired>>

dispVars == <<sinks, message_blank, d_pc, d_i, call_log, d_raised,
              volume_override, volume_levels>>

lifeVars == <<life_cfg, unsub_callbacks, registered_webhooks, host_subs, host_webhooks,
              next_id, release_count, reg_count, unreg_count, life_ops, unload_info,
              setup_added, handler_names, setup_outcome, tick_tasks>>

autoVars == <<auto_cfg, is_running, listeners, auto_subs, auto_webhooks, auto_next_id,
              auto_ops, auto_raised>>

sensorVars == <<sensor_triggers, trigger_map, sensor_armed, sensor_states, sensor_log>>

hookVars == <<hook_names, hook_media, last_triggered, hook_clock, hook_log>>

rewriteVars == <<ai_cfg, original, final_message>>

overlapVars == <<firings, overlap_log>>

stopVars == <<tasks, last_event>>

msgVars == <<snapshot, msg_now, built>>

spellVars == <<arg, spoken>>

intervalVars == <<stored_schedule, interval_now, schedule_outcome>>

reloadVars == <<setup_seen>>

liveVars == <<last_fire, saves, last_save_at, completed_at>>

storeVars == <<store_data, store_file, reloads, last_save>>

vars == <<precipVars, changeVars, timeVars, dispVars, lifeVars, autoVars, sensorVars,
          hookVars, rewriteVars,
    overlapVars,
    stopVars,
    msgVars,
    spellVars,
    intervalVars,
    reloadVars,
    liveVars,
    storeVars>>

notPrecip == <<changeVars, timeVars, dispVars, lifeVars, autoVars, sensorVars,
    hookVars, rewriteVars,
    overlapVars,
    stopVars,
    msgVars,
    spellVars,
    intervalVars,
    reloadVars,
    liveVars,
    storeVars>>
notChange == <<precipVars, timeVars, dispVars, lifeVars, autoVars, sensorVars,
    hookVars, rewriteVars,
    overlapVars,
    stopVars,
    msgVars,
    spellVars,
    intervalVars,
    reloadVars,
    liveVars,
    storeVars>>
notTime == <<precipVars, changeVars, dispVars, lifeVars, autoVars, sensorVars,
    hookVars, rewriteVars,
    overlapVars,
    stopVars,
    msgVars,
    spellVars,
    intervalVars,
    reloadVars,
    liveVars,
    storeVars>>
notDisp == <<precipVars, changeVars, timeVars, lifeVars, autoVars, sensorVars,
    hookVars, rewriteVars,
    overlapVars,
    stopVars,
    msgVars,
    spellVars,
    intervalVars,
    reloadVars,
    liveVars,
    storeVars>>
notLife == <<precipVars, changeVars, timeVars, dispVars, autoVars, sensorVars,
    hookVars, rewriteVars,
    overlapVars,
    stopVars,
    msgVars,
    spellVars,
    intervalVars,
    reloadVars,
    liveVars,
    storeVars>>
notHook == <<precipVars, changeVars, timeVars, dispVars, lifeVars, autoVars, sensorVars,
    rewriteVars,
    overlapVars,
    stopVars,
    msgVars,
    spellVars,
    intervalVars,
    reloadVars,
    liveVars,
    storeVars>>
notRewrite == <<precipVars, changeVars, timeVars, lifeVars, autoVars, sensorVars, hookVars,
    overlapVars,
    stopVars,
    msgVars,
    spellVars,
    intervalVars,
    reloadVars,
    liveVars,
    storeVars>>
notSensor == <<precipVars, changeVars, timeVars, dispVars, lifeVars, autoVars,
    hookVars, rewriteVars,
    overlapVars,
    stopVars,
    msgVars,
    spellVars,
    intervalVars,
    reloadVars,
    liveVars,
    storeVars>>
notOverlap == <<precipVars, changeVars, timeVars, dispVars, lifeVars, autoVars, sensorVars,
    hookVars, rewriteVars,
    stopVars,
    msgVars,
    spellVars,
    intervalVars,
    reloadVars,
    liveVars,
    storeVars>>
notStop == <<precipVars, changeVars, timeVars, dispVars, lifeVars, autoVars, sensorVars,
    hookVars, rewriteVars, overlapVars,
    msgVars,
    spellVars,
    intervalVars,
    reloadVars,
    liveVars,
    storeVars>>
notMsg == <<precipVars, changeVars, timeVars, dispVars, lifeVars, autoVars, sensorVars,
    hookVars, rewriteVars, overlapVars, stopVars,
    spellVars,
    intervalVars,
    reloadVars,
    liveVars,
    storeVars>>
notSpell == <<precipVars, changeVars, timeVars, dispVars, lifeVars, autoVars, sensorVars,
    hookVars, rewriteVars, overlapVars, stopVars, msgVars,
    intervalVars,
    reloadVars,
    liveVars,
    storeVars>>
notInterval == <<precipVars, changeVars, timeVars, dispVars, lifeVars, autoVars, sensorVars,
    hookVars, rewriteVars, overlapVars, stopVars, msgVars, spellVars,
    reloadVars,
    liveVars,
    storeVars>>
notReload == <<precipVars, changeVars, timeVars, dispVars, lifeVars, autoVars, sensorVars,
    hookVars, rewriteVars, overlapVars, stopVars, msgVars, spellVars, intervalVars,
    liveVars,
    storeVars>>
notLive == <<precipVars, changeVars, timeVars, dispVars, lifeVars, sensorVars,
    hookVars, rewriteVars, overlapVars, stopVars, msgVars, spellVars, intervalVars,
    reloadVars,
    storeVars>>
notStore == <<precipVars, changeVars, timeVars, dispVars, lifeVars, autoVars, sensorVars,
    hookVars, rewriteVars, overlapVars, stopVars, msgVars, spellVars, intervalVars,
    reloadVars, liveVars>>
\* what async_setup has nothing to do with
notSetup == <<changeVars, timeVars, dispVars, autoVars, sensorVars,
    hookVars, rewriteVars, overlapVars, stopVars, msgVars, spellVars, intervalVars,
    liveVars,
    storeVars>>
notAuto == <<precipVars, changeVars, timeVars, dispVars, lifeVars, sensorVars,
    hookVars, rewriteVars,
    overlapVars,
    stopVars,
    msgVars,
    spellVars,
    intervalVars,
    reloadVars,
    liveVars,
    storeVars>>

(***************************************************************************)
(* Bounds of the model.                                                    *)
(***************************************************************************)
MaxNow == 95            \* the clock stops here
MaxHourly == 2          \* entries of an hourly forecast
MaxInFlight == 2        \* poll tasks suspended at once
MaxEvents == 3          \* state-change events delivered to the current-change listener
MaxSinks == 3           \* entries of media_players_config
MaxOps == 4             \* async_setup and async_unload calls in one behaviour
MaxLateNow == 185       \* the clock stops here when the weather snapshot never changes
MaxRequests == 2        \* requests the webhooks receive
MaxFailures == 1        \* release calls that raise within one async_unload
MaxOverlapSinks == 2     \* entries of media_players_config while two firings overlap
MaxTasks == 1           \* announcement tasks started in one behaviour
MaxNumber == 1100       \* numbers spelled
MaxSaves == 2            \* configuration saves in a run
MaxMinutes == 200       \* minutes_until of an upcoming-change message
MaxTail == 2            \* hourly entries after the dry ones
MaxDaily == 2           \* entries of a daily forecast
MaxTaskCalls == 1       \* sink calls one announcement makes

(***************************************************************************)
(* Upcoming-precipitation poll: TTSTriggerManager._check_upcoming_precip   *)
(***************************************************************************)
PollInterval == 5       \* timedelta(minutes=5)
MinutesPerHour == 60    \* the "%H" of the alert key
PurgeHours == 2         \* timedelta(hours=2)
precip_threshold == 30  \* tts_config.get("precip_threshold", 30)

MinutesBeforeChoices == {15, 30}
EntryTimes == {60, 90, 120}
Probabilities == {20, 30}
Conditions == {"none", "sunny", "rainy"}
\* with a precipitating state that holds none of the words the poll looks for
LateConditions == Conditions \cup {"pouring"}

LowestOf(S) == CHOOSE x \in S : \A y \in S : x <= y

\* A datetime is its instant and whether it carries a UTC offset.
Aware(t) == [t |-> t, aware |-> TRUE]
Naive(t) == [t |-> t, aware |-> FALSE]

\* An hourly entry: its "datetime" string parsed by datetime.fromisoformat is
\* aware exactly when the string carries an offset.
HourlyEntries ==
    [t : EntryTimes, prob : {precip_threshold}, aware : {TRUE}]
        \cup {[t |-> LowestOf(EntryTimes), prob |-> LowestOf(Probabilities), aware |-> TRUE],
              [t |-> LowestOf(EntryTimes), prob |-> precip_threshold, aware |-> FALSE]}

RECURSIVE SeqsUpTo(_, _)
SeqsUpTo(S, n) ==
    IF n = 0 THEN {<<>>}
    ELSE LET shorter == SeqsUpTo(S, n - 1)
         IN  shorter \cup {Append(s, x) : s \in {q \in shorter : Len(q) = n - 1}, x \in S}

Forecasts == SeqsUpTo(HourlyEntries, MaxHourly)

\* Python orders two datetimes only when both are aware or both naive;
\* otherwise the comparison raises TypeError.
Comparable(a, b) == a.aware = b.aware

\* any(p in current_condition for p in ["rain", "snow", "sleet", "drizzle", "thunder"])
IsPrecipitating(cond) == cond \in {"rainy"}

\* h_time.strftime("%Y-%m-%d-%H"): the hour the instant lies in.
AlertKey(t) == t \div MinutesPerHour

\* datetime.strptime(k, "%Y-%m-%d-%H"): the start of that hour, without offset.
KeyTime(k) == Naive(k * MinutesPerHour)

AlertKeys == {AlertKey(t) : t \in EntryTimes}

\* A mutant of AlreadyAlerted: the dedup test is lost.
AlreadyAlertedNever(key, fired) == FALSE

\* if alert_key in self._upcoming_alert_fired: continue
AlreadyAlerted(key, fired) == key \in fired

\* The for loop over hourly up to its first suspension: what the scan ends
\* with. "fire": entry idx is announced; "raise": a comparison raised
\* TypeError; "none": the loop ran to its end.
RECURSIVE ScanHourly(_, _, _, _, _)
ScanHourly(hourly, i, n, fired, mb) ==
    IF i > Len(hourly) THEN [kind |-> "none", idx |-> 0]
    ELSE LET h == hourly[i] IN
         IF h.prob < precip_threshold THEN ScanHourly(hourly, i + 1, n, fired, mb)
         ELSE IF ~Comparable(Aware(n), [t |-> h.t, aware |-> h.aware])
              THEN [kind |-> "raise", idx |-> i]
         ELSE IF n < h.t /\ h.t <= n + mb
              THEN IF AlreadyAlerted(AlertKey(h.t), fired)
                   THEN ScanHourly(hourly, i + 1, n, fired, mb)
                   ELSE [kind |-> "fire", idx |-> i]
         ELSE ScanHourly(hourly, i + 1, n, fired, mb)

\* The clean-up at the end of the poll. The comprehension compares
\* strptime's naive datetime with the aware two_hours_ago, so it raises on
\* its first element and the assignment never happens.
PurgeRaises(fired, n) ==
    \E k \in fired : ~Comparable(KeyTime(k), Aware(n - PurgeHours * MinutesPerHour))

PurgeResult(fired, n) ==
    {k \in fired : KeyTime(k).t > n - PurgeHours * MinutesPerHour}

\* The end of a poll task that reached the clean-up with clock value n.
PollCleanUp(n) ==
    IF PurgeRaises(upcoming_alert_fired, n)
    THEN /\ poll_outcome' = "raised"
         /\ UNCHANGED upcoming_alert_fired
    ELSE /\ poll_outcome' = "returned"
         /\ upcoming_alert_fired' = PurgeResult(upcoming_alert_fired, n)

\* A mutant of MarkFired: the key is not added before the dispatch.
MarkFiredLater(fired, key) == fired

\* self._upcoming_alert_fired.add(alert_key), ahead of the awaited dispatch
MarkFired(fired, key) == fired \cup {key}

\* The 5-minute timer fires: _check_upcoming creates the task, which runs
\* to its first suspension (the dispatch) or to its end.
Poll(limit) ==
    /\ now + PollInterval <= limit
    /\ Cardinality(poll_tasks) < MaxInFlight
    /\ now' = now + PollInterval
    /\ UNCHANGED notPrecip
    /\ UNCHANGED <<hourly_forecast, current_condition, media_players, minutes_before>>
    /\ LET n == now'
           scan == ScanHourly(hourly_forecast, 1, n, upcoming_alert_fired, minutes_before)
       IN  IF ~media_players
           THEN /\ poll_outcome' = "returned"
                /\ UNCHANGED <<upcoming_alert_fired, poll_tasks, precip_dispatched>>
           ELSE IF current_condition = "none"
           THEN \* current is None: current.get raises AttributeError
                /\ poll_outcome' = "raised"
                /\ UNCHANGED <<upcoming_alert_fired, poll_tasks, precip_dispatched>>
           ELSE IF IsPrecipitating(current_condition)
           THEN /\ poll_outcome' = "returned"
                /\ UNCHANGED <<upcoming_alert_fired, poll_tasks, precip_dispatched>>
           ELSE IF scan.kind = "raise"
           THEN /\ poll_outcome' = "raised"
                /\ UNCHANGED <<upcoming_alert_fired, poll_tasks, precip_dispatched>>
           ELSE IF scan.kind = "fire"
           THEN LET key == AlertKey(hourly_forecast[scan.idx].t) IN
                /\ upcoming_alert_fired' = MarkFired(upcoming_alert_fired, key)
                /\ precip_dispatched' = precip_dispatched \cup
                        {[key |-> key, now |-> n, t |-> hourly_forecast[scan.idx].t]}
                /\ poll_tasks' = poll_tasks \cup {[now |-> n, key |-> key]}
                /\ poll_outcome' = "dispatching"
           ELSE /\ PollCleanUp(n)
                /\ UNCHANGED <<poll_tasks, precip_dispatched>>

PollTick == Poll(MaxNow)

\* The same timer over a longer run.
LatePollTick == Poll(MaxLateNow)

\* A suspended poll task's dispatch returns: break, then the clean-up with
\* the clock value the task read at its start.
PollResume ==
    \E task \in poll_tasks :
        /\ poll_tasks' = poll_tasks \ {task}
        /\ PollCleanUp(task.now)
        /\ UNCHANGED <<now, hourly_forecast, current_condition, media_players,
                       minutes_before, precip_dispatched>>
        /\ UNCHANGED notPrecip

\* The coordinator replaces the weather snapshot: a new hourly forecast.
ForecastRefresh ==
    /\ \E f \in Forecasts \ {hourly_forecast} : hourly_forecast' = f
    /\ UNCHANGED <<now, current_condition, media_players, minutes_before,
                   upcoming_alert_fired, poll_tasks, precip_dispatched, poll_outcome>>
    /\ UNCHANGED notPrecip

\* The coordinator replaces the weather snapshot: a new current condition.
ConditionRefresh ==
    /\ \E c \in Conditions \ {current_condition} : current_condition' = c
    /\ UNCHANGED <<now, hourly_forecast, media_players, minutes_before,
                   upcoming_alert_fired, poll_tasks, precip_dispatched, poll_outcome>>
    /\ UNCHANGED notPrecip

\* The part at rest, in the specifications of the other parts.
PrecipIdle ==
    /\ now = 0
    /\ hourly_forecast = <<>>
    /\ current_condition = "none"
    /\ media_players = FALSE
    /\ minutes_before = LowestOf(MinutesBeforeChoices)
    /\ upcoming_alert_fired = {}
    /\ poll_tasks = {}
    /\ precip_dispatched = {}
    /\ poll_outcome = "idle"

PrecipStart ==
    /\ now = 0
    /\ hourly_forecast \in Forecasts
    /\ current_condition \in Conditions
    /\ media_players \in BOOLEAN
    /\ minutes_before \in MinutesBeforeChoices
    /\ upcoming_alert_fired = {}
    /\ poll_tasks = {}
    /\ precip_dispatched = {}
    /\ poll_outcome = "idle"

PrecipNext == PollTick \/ PollResume \/ ForecastRefresh \/ ConditionRefresh

PrecipLateStart ==
    /\ now = 0
    /\ hourly_forecast \in Forecasts
    /\ current_condition \in LateConditions
    /\ media_players \in BOOLEAN
    /\ minutes_before \in MinutesBeforeChoices
    /\ upcoming_alert_fired = {}
    /\ poll_tasks = {}
    /\ precip_dispatched = {}
    /\ poll_outcome = "idle"

\* The polls alone, while the coordinator delivers the same snapshot.
PrecipLateNext == LatePollTick \/ PollResume

(***************************************************************************)
(* Current-change trigger: TTSTriggerManager._setup_current_change_trigger *)
(***************************************************************************)
NoState == "absent"     \* no state object (entity missing), and _last_condition None
WeatherStates == {"sunny", "cloudy", "rainy"}

\* A mutant of StateChangedFires: the test against _last_condition is lost.
StateChangedFiresNoDedup(old, new, last) ==
    old # NoState /\ new # NoState /\ old # new

\* _state_changed: both states present, and
\* old_condition != new_condition and self._last_condition != new_condition
StateChangedFires(old, new, last) ==
    /\ old # NoState
    /\ new # NoState
    /\ old # new
    /\ last # new

\* _setup_current_change_trigger: reads the entity's state, installs the listener.
SetupCurrentChange ==
    /\ ~change_armed
    /\ change_armed' = TRUE
    /\ last_condition' = IF weather_state # NoState THEN weather_state ELSE last_condition
    /\ UNCHANGED <<weather_state, change_log>>
    /\ UNCHANGED notChange

\* The host reports a state change of the weather entity: old is the state
\* it had, new the one it has now (either may be absent, and new may equal
\* old when only attributes changed). _state_changed runs to its end.
StateChangeEvent ==
    /\ change_armed
    /\ Len(change_log) < MaxEvents
    /\ \E new \in WeatherStates \cup {NoState} :
          LET old == weather_state
              fires == StateChangedFires(old, new, last_condition)
          IN  /\ ~(old = NoState /\ new = NoState)
              /\ weather_state' = new
              /\ last_condition' = IF fires THEN new ELSE last_condition
              /\ change_log' = Append(change_log,
                     [old |-> old, new |-> new, last_before |-> last_condition,
                      last_at_fire |-> last_condition', fired |-> fires])
    /\ UNCHANGED change_armed
    /\ UNCHANGED notChange

ChangeIdle ==
    /\ weather_state = NoState
    /\ last_condition = NoState
    /\ change_armed = FALSE
    /\ change_log = <<>>

ChangeStart ==
    /\ weather_state \in WeatherStates \cup {NoState}
    /\ last_condition = NoState
    /\ change_armed = FALSE
    /\ change_log = <<>>

ChangeNext == SetupCurrentChange \/ StateChangeEvent

(***************************************************************************)
(* Time-based trigger: TTSTriggerManager._setup_time_based_trigger         *)
(***************************************************************************)
NoTick == [weekday |-> -1, hour |-> -1, minute |-> -1]

Weekdays == 0..6        \* datetime.weekday(): Monday is 0
Hours == 0..23
TickMinutes == {0, 2, 3, 4, 59}

DayNames == {"mon", "tue", "wed", "thu", "fri", "sat", "sun"}
DaysChoices == {{}, {"holiday"}, {"mon", "holiday"}, {"Saturday", "sun"}, DayNames}
\* A time of day as map(int, s.split(":")) yields it: "09:03" is <<9, 3>>,
\* "06:00:00" is <<6, 0, 0>>.
WindowChoices == {<< <<8, 0>>, <<21, 0>> >>, << <<9, 3>>, <<9, 3>> >>,
                  << <<0, 0>>, <<23, 59>> >>, << <<6, 0, 0>>, <<22, 0, 0>> >>}
HourPatterns == {0, 1, 3}
MinuteOffsets == {0, 3}

DefaultStart == <<8, 0>>
DefaultEnd == <<21, 0>>

\* day_map.get(d.lower()[:3], -1)
DayNumber(d) ==
    CASE d = "mon" -> 0
      [] d = "tue" -> 1
      [] d = "wed" -> 2
      [] d = "thu" -> 3
      [] d = "fri" -> 4
      [] d \in {"sat", "Saturday"} -> 5
      [] d = "sun" -> 6
      [] OTHER -> -1

\* allowed_days: the recognised days, and every day when there is none.
AllowedDays(days) ==
    LET named == {DayNumber(d) : d \in days} \ {-1}
    IN  IF named = {} THEN Weekdays ELSE named

\* start_h, start_m = map(int, ...): unpacking needs exactly two values;
\* when either string fails, both fall back to 08:00 and 21:00.
ParsedWindow(st, et) ==
    IF Len(st) = 2 /\ Len(et) = 2
    THEN [start |-> st[1] * 60 + st[2], end |-> et[1] * 60 + et[2]]
    ELSE [start |-> DefaultStart[1] * 60 + DefaultStart[2],
          end |-> DefaultEnd[1] * 60 + DefaultEnd[2]]

\* list(range(0, 24, hour_pattern)) if hour_pattern > 0 else []
TriggerHours(hp) ==
    IF hp > 0 THEN {k * hp : k \in Hours} \cap Hours ELSE {}

\* A mutant of InTimeWindow: the end minute is left out.
InTimeWindowEndExclusive(cur, w) == w.start <= cur /\ cur < w.end

\* start_minutes <= current_minutes <= end_minutes
InTimeWindow(cur, w) == w.start <= cur /\ cur <= w.end

\* _check_and_fire(now): whether it creates the scheduled-forecast task.
CheckAndFire(wd, h, m) ==
    /\ wd \in AllowedDays(days_of_week)
    /\ InTimeWindow(h * 60 + m, ParsedWindow(start_time, end_time))
    /\ h \in TriggerHours(hour_pattern)

\* _setup_time_based_trigger: installs the listener for minute=minute_offset.
SetupTimeBased ==
    /\ ~time_armed
    /\ time_armed' = TRUE
    /\ UNCHANGED <<days_of_week, start_time, end_time, hour_pattern, minute_offset,
                   tick, sched_fired>>
    /\ UNCHANGED notTime

\* The modelled minute that follows t on the host clock; the clock may
\* start at any minute.
ClockSuccessors(t) ==
    IF t = NoTick
    THEN [weekday : Weekdays, hour : Hours, minute : TickMinutes]
    ELSE LET later == {m \in TickMinutes : m > t.minute} IN
         IF later # {}
         THEN {[t EXCEPT !.minute = LowestOf(later)]}
         ELSE IF t.hour + 1 \in Hours
         THEN {[t EXCEPT !.minute = LowestOf(TickMinutes), !.hour = t.hour + 1]}
         ELSE {[weekday |-> (t.weekday + 1) % 7, hour |-> 0,
                minute |-> LowestOf(TickMinutes)]}

\* The host clock goes through a minute (second 0); async_track_time_change
\* calls _check_and_fire when the minute is minute_offset.
TimeTick ==
    /\ time_armed
    /\ \E t \in ClockSuccessors(tick) :
          /\ tick' = t
          /\ sched_fired' = (t.minute = minute_offset
                              /\ CheckAndFire(t.weekday, t.hour, t.minute))
    /\ UNCHANGED <<days_of_week, start_time, end_time, hour_pattern, minute_offset,
                   time_armed>>
    /\ UNCHANGED notTime

TimeIdle ==
    /\ days_of_week = {}
    /\ start_time = DefaultStart
    /\ end_time = DefaultEnd
    /\ hour_pattern = 0
    /\ minute_offset = 0
    /\ time_armed = FALSE
    /\ tick = NoTick
    /\ sched_fired = FALSE

TimeStart ==
    /\ days_of_week \in DaysChoices
    /\ \E w \in WindowChoices : start_time = w[1] /\ end_time = w[2]
    /\ hour_pattern \in HourPatterns
    /\ minute_offset \in MinuteOffsets
    /\ time_armed = FALSE
    /\ tick = NoTick
    /\ sched_fired = FALSE

TimeNext == SetupTimeBased \/ TimeTick

(***************************************************************************)
(* Dispatch: send_tts                                                      *)
(***************************************************************************)
\* A volume is a whole number of hundredths; NoVolume stands for None and
\* for a key that is not there.
NoVolume == -1
DefaultVolume == 60

\* A sink record: whether it has an entity_id, whether it has a
\* tts_entity_id, whether its preroll_ms is positive, and its "volume".
SinkRecords ==
    {[entity |-> TRUE, tts |-> TRUE, preroll |-> TRUE, volume |-> NoVolume],
     [entity |-> TRUE, tts |-> TRUE, preroll |-> FALSE, volume |-> 0],
     [entity |-> TRUE, tts |-> TRUE, preroll |-> FALSE, volume |-> 30],
     [entity |-> TRUE, tts |-> FALSE, preroll |-> TRUE, volume |-> NoVolume],
     [entity |-> FALSE, tts |-> TRUE, preroll |-> TRUE, volume |-> NoVolume]}

\* The volume_override a trigger passes: None, or the number a webhook
\* request carries.
VolumeOverrides == {NoVolume, 0, 80}

\* A mutant of EffectiveVolume: volume_override or mp.get("volume", 0.6),
\* which takes an override of 0 for none.
EffectiveVolumeFalsy(override, mp) ==
    IF override # NoVolume /\ override # 0 THEN override
    ELSE IF mp.volume # NoVolume THEN mp.volume
    ELSE DefaultVolume

\* volume_override if volume_override is not None else mp.get("volume", 0.6)
EffectiveVolume(override, mp) ==
    IF override # NoVolume THEN override
    ELSE IF mp.volume # NoVolume THEN mp.volume
    ELSE DefaultVolume

SinkLists == SeqsUpTo(SinkRecords, MaxSinks)

\* if not entity_id: continue / if not tts_entity: continue
Processed(sink) == sink.entity /\ sink.tts

\* The first sink at or after index i that the loop does not skip, or
\* Len + 1 when the loop ends.
RECURSIVE NextProcessed(_, _)
NextProcessed(list, i) ==
    IF i > Len(list) THEN Len(list) + 1
    ELSE IF Processed(list[i]) THEN i
    ELSE NextProcessed(list, i + 1)

\* A mutant of VolumeFailureCaught: the inner try is missing, so a failed
\* volume_set ends the sink's turn in the outer handler.
VolumeFailureNotCaught == FALSE

\* except Exception as vol_e: the volume_set failure is logged and the
\* sink's turn goes on.
VolumeFailureCaught == TRUE

\* if i < len(media_players_config) - 1 (i counted from 0)
DelayAfter(i, list) == i < Len(list)

\* A mutant of FirstCall: a sink's turn starts at the speak call.
FirstCallSpeak == "speak"

\* The first call of a sink's turn: Step 1, media_player.volume_set.
FirstCall == "volume"

\* The loop moves on from sink i: the coroutine suspends in the next
\* processed sink's volume_set, or returns.
MoveOn(i) ==
    LET j == NextProcessed(sinks, i + 1) IN
    /\ d_i' = j
    /\ d_pc' = IF j > Len(sinks) THEN "done" ELSE FirstCall

\* send_tts is called: the guards, then the loop up to the first call.
SendTts ==
    /\ d_pc = "idle"
    /\ IF sinks = <<>> \/ message_blank
       THEN d_pc' = "done" /\ d_i' = 0
       ELSE MoveOn(0)
    /\ UNCHANGED <<sinks, message_blank, call_log, d_raised, volume_override, volume_levels>>
    /\ UNCHANGED notDisp

\* Step 1: media_player.volume_set, which returns or raises.
VolumeSet ==
    /\ d_pc = "volume"
    /\ \E ok \in BOOLEAN :
          /\ call_log' = Append(call_log, [kind |-> "volume", sink |-> d_i, ok |-> ok])
          /\ volume_levels' = Append(volume_levels,
                 [sink |-> d_i, volume_level |-> EffectiveVolume(volume_override, sinks[d_i])])
          /\ IF ok \/ VolumeFailureCaught
             THEN /\ d_pc' = IF sinks[d_i].preroll THEN "preroll" ELSE "speak"
                  /\ UNCHANGED d_i
             ELSE MoveOn(d_i)
    /\ UNCHANGED <<sinks, message_blank, d_raised, volume_override>>
    /\ UNCHANGED notDisp

\* Step 2: asyncio.sleep(preroll_ms / 1000) when preroll_ms > 0.
PrerollWait ==
    /\ d_pc = "preroll"
    /\ call_log' = Append(call_log, [kind |-> "preroll", sink |-> d_i, ok |-> TRUE])
    /\ d_pc' = "speak"
    /\ UNCHANGED <<sinks, message_blank, d_i, d_raised, volume_override, volume_levels>>
    /\ UNCHANGED notDisp

\* Step 3: tts.speak, which returns or raises; a raise goes to the outer
\* handler, past the pause between players.
Speak ==
    /\ d_pc = "speak"
    /\ \E ok \in BOOLEAN :
          /\ call_log' = Append(call_log, [kind |-> "speak", sink |-> d_i, ok |-> ok])
          /\ IF ok /\ DelayAfter(d_i, sinks)
             THEN d_pc' = "delay" /\ UNCHANGED d_i
             ELSE MoveOn(d_i)
    /\ UNCHANGED <<sinks, message_blank, d_raised, volume_override, volume_levels>>
    /\ UNCHANGED notDisp

\* The pause between players: asyncio.sleep(0.5).
InterSinkDelay ==
    /\ d_pc = "delay"
    /\ call_log' = Append(call_log, [kind |-> "delay", sink |-> d_i, ok |-> TRUE])
    /\ MoveOn(d_i)
    /\ UNCHANGED <<sinks, message_blank, d_raised, volume_override, volume_levels>>
    /\ UNCHANGED notDisp

DispIdle ==
    /\ sinks = <<>>
    /\ message_blank = FALSE
    /\ d_pc = "idle"
    /\ d_i = 0
    /\ call_log = <<>>
    /\ d_raised = FALSE
    /\ volume_override = NoVolume
    /\ volume_levels = <<>>

DispStart ==
    /\ sinks \in SinkLists
    /\ message_blank \in BOOLEAN
    /\ d_pc = "idle"
    /\ d_i = 0
    /\ call_log = <<>>
    /\ d_raised = FALSE
    /\ volume_override \in VolumeOverrides
    /\ volume_levels = <<>>

DispNext == SendTts \/ VolumeSet \/ PrerollWait \/ Speak \/ InterSinkDelay

(***************************************************************************)
(* Trigger lifecycle: TTSTriggerManager.async_setup and async_unload       *)
(***************************************************************************)
SubKinds == <<"time", "change", "upcoming", "sensor">>  \* in arming order
TriggerKinds == {"time", "change", "upcoming", "sensor", "webhook"}
KindChoices == {{}, {"time"}, {"change"}, {"upcoming"}, {"sensor"}, {"webhook"},
                {"time", "webhook"}, TriggerKinds}

WebhookIds == {"w0", "w1", "w2"}
Hook(id, on, name) == [id |-> id, enabled |-> on, name |-> name]
LegacyName == "Cy"      \* tts_config["personal_name"]
\* tts_config["webhooks"] and the older single tts_config["webhook_id"] ("" when unset).
HookChoices ==
    {[list |-> <<>>, legacy |-> ""],
     [list |-> <<>>, legacy |-> "w0"],
     [list |-> <<Hook("w1", TRUE, "Ann"), Hook("w2", TRUE, "")>>, legacy |-> "w0"],
     [list |-> <<Hook("w1", TRUE, "Ann"), Hook("w1", TRUE, "Bo")>>, legacy |-> ""],
     [list |-> <<Hook("w1", FALSE, "Ann"), Hook("w2", TRUE, "Bo"), Hook("", TRUE, "Di")>>,
      legacy |-> ""]}

\* tts_config["hour_pattern"]: an integer, or a value of another type (a
\* string out of a hand-edited configuration).
HourPatternChoices ==
    {[type |-> "int", value |-> 0], [type |-> "int", value |-> 3],
     [type |-> "str", value |-> 3]}

LifeConfigs ==
    [enabled : BOOLEAN, kinds : KindChoices, weather_entity : BOOLEAN,
     sensor_mapped : BOOLEAN, hooks : HookChoices, hour_pattern : HourPatternChoices]

HandleIds == 1..(MaxOps * Len(SubKinds))

\* Whether arming kind k installs its subscription: the time-based and the
\* upcoming-change trigger always do, the current-change trigger needs a
\* weather entity, the sensor trigger a mapping with an entity id.
Installs(k, cfg) ==
    /\ k \in cfg.kinds
    /\ k = "change" => cfg.weather_entity
    /\ k = "sensor" => cfg.sensor_mapped

\* The subscription kinds async_setup arms, in order.
ArmedKinds(cfg) ==
    IF cfg.enabled THEN SelectSeq(SubKinds, LAMBDA k : Installs(k, cfg)) ELSE <<>>

\* webhooks, or the single older webhook when the list is empty.
EffectiveHooks(cfg) ==
    IF cfg.hooks.list # <<>> THEN cfg.hooks.list
    ELSE IF cfg.hooks.legacy # "" THEN <<Hook(cfg.hooks.legacy, TRUE, LegacyName)>>
    ELSE <<>>

\* A mutant of HookWanted: the entry's enabled flag is not looked at.
HookWantedAlsoDisabled(h) == h.id # ""

\* if not webhook_config.get("enabled", True): continue
\* if not webhook_id: continue
HookWanted(h) == h.enabled /\ h.id # ""

\* The entries _setup_webhook_trigger tries to register, in order.
HooksToRegister(cfg) ==
    IF cfg.enabled /\ "webhook" \in cfg.kinds
    THEN SelectSeq(EffectiveHooks(cfg), HookWanted)
    ELSE <<>>

\* Their ids.
HookIdsToRegister(cfg) ==
    [k \in 1..Len(HooksToRegister(cfg)) |-> HooksToRegister(cfg)[k].id]

\* make_handler(personal_name, webhook_id): the name given to the handler
\* of id w, made for the first entry with that id (a second registration
\* of the id is refused).
HandlerName(cfg, w) ==
    LET wanted == HooksToRegister(cfg)
    IN  wanted[LowestOf({k \in 1..Len(wanted) : wanted[k].id = w})].name

\* The registration loop from index i on: the host refuses an id that is
\* already registered (the failure is caught); every other id is
\* registered and appended. Gives the ids registered, in order.
RECURSIVE RegisterFrom(_, _, _)
RegisterFrom(ids, i, taken) ==
    IF i > Len(ids) THEN <<>>
    ELSE IF ids[i] \in taken THEN RegisterFrom(ids, i + 1, taken)
    ELSE <<ids[i]>> \o RegisterFrom(ids, i + 1, taken \cup {ids[i]})

Range(q) == {q[k] : k \in 1..Len(q)}

\* hour_pattern > 0 raises TypeError when hour_pattern is not a number;
\* nothing in _setup_time_based_trigger or async_setup catches it.
TimeBasedRaises(cfg) == cfg.hour_pattern.type # "int"

\* The positions in the arming order at which arming can raise: the
\* time-based trigger when its hour_pattern is malformed, else any position
\* (the host's subscribe call raises), or 0 for none.
FailurePositions(kinds, cfg) ==
    IF kinds # <<>> /\ kinds[1] = "time" /\ TimeBasedRaises(cfg) THEN {1}
    ELSE 0..Len(kinds)

NoHandler == "unregistered"

\* A mutant of HandlesKept: the handles are not kept.
HandlesDropped(list, handles) == list

\* self._unsub_callbacks.append(unsub), after every subscribe call
HandlesKept(list, handles) == list \o handles

\* A mutant of FiredKept: a set-up starts from an empty set of alert keys.
FiredReset(fired) == {}

\* _upcoming_alert_fired is made in __init__ and async_setup assigns
\* nothing to it.
FiredKept(fired) == fired

NoSetup == [raised |-> FALSE, failed |-> "none", armed |-> {}]

\* async_setup: arms every enabled trigger kind in order; has no guard
\* against a second call and no try around a kind's arming, so the first
\* arming that raises ends async_setup.
AsyncSetup ==
    /\ Len(life_ops) < MaxOps
    /\ \E failAt \in FailurePositions(ArmedKinds(life_cfg), life_cfg) :
         LET attempted == ArmedKinds(life_cfg)
             kinds == IF failAt = 0 THEN attempted ELSE SubSeq(attempted, 1, failAt - 1)
             handles == [k \in 1..Len(kinds) |-> [id |-> next_id + k - 1, kind |-> kinds[k]]]
             hooks == IF failAt = 0
                      THEN RegisterFrom(HookIdsToRegister(life_cfg), 1, host_webhooks)
                      ELSE <<>>
         IN  /\ unsub_callbacks' = HandlesKept(unsub_callbacks, handles)
             /\ host_subs' = host_subs \cup Range(handles)
             /\ next_id' = next_id + Len(handles)
             /\ registered_webhooks' = registered_webhooks \o hooks
             /\ host_webhooks' = host_webhooks \cup Range(hooks)
             /\ reg_count' = [w \in WebhookIds |->
                                 reg_count[w] + (IF w \in Range(hooks) THEN 1 ELSE 0)]
             /\ setup_added' = Len(handles) + Len(hooks)
             /\ handler_names' = [w \in WebhookIds |->
                                     IF w \in Range(hooks) THEN HandlerName(life_cfg, w)
                                     ELSE handler_names[w]]
             /\ setup_outcome' =
                   [raised |-> failAt # 0,
                    failed |-> IF failAt = 0 THEN "none" ELSE attempted[failAt],
                    armed |-> Range(kinds)
                              \cup (IF hooks # <<>> THEN {"webhook"} ELSE {})]
    /\ life_ops' = Append(life_ops, "setup")
    /\ upcoming_alert_fired' = FiredKept(upcoming_alert_fired)
    /\ setup_seen' = [now |-> now, fired |-> upcoming_alert_fired]
    /\ UNCHANGED <<life_cfg, release_count, unreg_count, unload_info, tick_tasks>>
    /\ UNCHANGED <<now, hourly_forecast, current_condition, media_players, minutes_before,
                   poll_tasks, precip_dispatched, poll_outcome>>
    /\ UNCHANGED notSetup

\* A mutant of ReleaseFailureCaught: the try around a release is missing.
ReleaseFailureNotCaught == FALSE

\* except Exception as e: a release or unregistration that raises is
\* logged and the loop goes on.
ReleaseFailureCaught == TRUE

\* A mutant of ClearedList: the list is not cleared.
ClearedListKept(list) == list

\* self._unsub_callbacks.clear() / self._registered_webhooks.clear()
ClearedList(list) == <<>>

\* A mutant of WebhooksToUnregister: the webhooks are not unregistered.
WebhooksToUnregisterNone(list) == <<>>

\* for webhook_id in self._registered_webhooks
WebhooksToUnregister(list) == list

\* The entries of q the loop calls when the calls in failing raise: all of
\* them when the failure is caught, else those up to the first that raises.
Called(q, failing) ==
    IF ReleaseFailureCaught \/ \A k \in 1..Len(q) : k \notin failing
    THEN q
    ELSE SubSeq(q, 1, LowestOf({k \in 1..Len(q) : k \in failing}))

\* async_unload: releases every handle and unregisters every webhook; any
\* of these calls may raise. A release call ends the host's subscription
\* whether it returns or raises.
AsyncUnload ==
    /\ Len(life_ops) < MaxOps
    /\ \E failSubs \in SUBSET (1..Len(unsub_callbacks)),
          failHooks \in SUBSET (1..Len(registered_webhooks)) :
          LET subs == Called(unsub_callbacks, failSubs)
              subsRaised == Len(subs) < Len(unsub_callbacks)
                            \/ (~ReleaseFailureCaught /\ failSubs # {})
              toUnregister == WebhooksToUnregister(registered_webhooks)
              hooks == IF subsRaised THEN <<>>
                       ELSE Called(toUnregister, failHooks)
              raised == subsRaised \/ (~ReleaseFailureCaught /\ failHooks # {})
          IN  /\ Cardinality(failSubs) + Cardinality(failHooks) <= MaxFailures
              /\ host_subs' = host_subs \ Range(subs)
              /\ release_count' = [id \in HandleIds |->
                     release_count[id]
                       + Cardinality({k \in 1..Len(subs) : subs[k].id = id})]
              /\ unsub_callbacks' = IF subsRaised THEN unsub_callbacks
                                    ELSE ClearedList(unsub_callbacks)
              /\ host_webhooks' = host_webhooks \ Range(hooks)
              /\ unreg_count' = [w \in WebhookIds |->
                     unreg_count[w] + Cardinality({k \in 1..Len(hooks) : hooks[k] = w})]
              /\ registered_webhooks' = IF raised THEN registered_webhooks
                                        ELSE ClearedList(registered_webhooks)
              /\ unload_info' = [held |-> Len(unsub_callbacks) + Len(registered_webhooks),
                                 calls |-> Len(subs) + Len(hooks),
                                 failures |-> Cardinality(failSubs) + Cardinality(failHooks),
                                 raised |-> raised]
    /\ life_ops' = Append(life_ops, "unload")
    /\ UNCHANGED <<life_cfg, next_id, reg_count, setup_added, handler_names, setup_outcome,
                   tick_tasks>>
    /\ UNCHANGED notLife

\* The host clock reaches a minute that matches the schedule: every
\* installed time-change listener calls its _check_and_fire, which creates
\* one scheduled-forecast task; with hour_pattern 0 no hour matches.
ScheduleTick ==
    /\ tick_tasks' = IF life_cfg.hour_pattern.value > 0
                     THEN Cardinality({h \in host_subs : h.kind = "time"})
                     ELSE 0
    /\ tick_tasks' # tick_tasks
    /\ UNCHANGED <<life_cfg, unsub_callbacks, registered_webhooks, host_subs,
                   host_webhooks, next_id, release_count, reg_count, unreg_count,
                   life_ops, unload_info, setup_added, handler_names, setup_outcome>>
    /\ UNCHANGED notLife

NoUnload == [held |-> 0, calls |-> 0, failures |-> 0, raised |-> FALSE]

LifeRest ==
    /\ unsub_callbacks = <<>>
    /\ registered_webhooks = <<>>
    /\ host_subs = {}
    /\ host_webhooks = {}
    /\ next_id = 1
    /\ release_count = [id \in HandleIds |-> 0]
    /\ reg_count = [w \in WebhookIds |-> 0]
    /\ unreg_count = [w \in WebhookIds |-> 0]
    /\ life_ops = <<>>
    /\ unload_info = NoUnload
    /\ setup_added = 0
    /\ handler_names = [w \in WebhookIds |-> NoHandler]
    /\ setup_outcome = NoSetup
    /\ tick_tasks = 0

LifeIdle ==
    /\ life_cfg = [enabled |-> FALSE, kinds |-> {}, weather_entity |-> FALSE,
                   sensor_mapped |-> FALSE, hooks |-> [list |-> <<>>, legacy |-> ""],
                   hour_pattern |-> [type |-> "int", value |-> 0]]
    /\ LifeRest

LifeStart ==
    /\ life_cfg \in LifeConfigs
    /\ LifeRest

LifeNext == AsyncSetup \/ AsyncUnload \/ ScheduleTick

(***************************************************************************)
(* Automation lifecycle: HomeWeatherAutomation.async_start and async_stop  *)
(***************************************************************************)
NoEntity == "unset"     \* weather_entity is None
EntityChoices == {NoEntity, "", "weather.home"}
PresenceChoices == {<<>>, <<"binary_sensor.hall">>,
                    <<"binary_sensor.hall", "binary_sensor.door">>}
AutoWebhookChoices == {"", "w0"}

AutoConfigs ==
    [weather_entity : EntityChoices, tts_ready : BOOLEAN,
     enable_time_based : BOOLEAN, enable_sensor_triggered : BOOLEAN,
     presence_sensors : PresenceChoices, enable_current_change_announce : BOOLEAN,
     enable_upcoming_change_announce : BOOLEAN, enable_alarm_announce : BOOLEAN,
     webhook_id : AutoWebhookChoices]

\* storage.is_configured(): a weather entity, a TTS engine and at least one
\* media player are stored.
IsConfigured(cfg) == cfg.weather_entity # NoEntity /\ cfg.tts_ready

\* The kinds of the listeners async_start appends to self._listeners, in order.
ListenerKinds(cfg) ==
    (IF cfg.enable_time_based THEN <<"time">> ELSE <<>>)
    \o (IF cfg.enable_sensor_triggered
        THEN [k \in 1..Len(cfg.presence_sensors) |-> "sensor"] ELSE <<>>)
    \o (IF cfg.enable_current_change_announce /\ cfg.weather_entity \notin {NoEntity, ""}
        THEN <<"change">> ELSE <<>>)
    \o (IF cfg.enable_upcoming_change_announce THEN <<"upcoming">> ELSE <<>>)

\* _setup_webhook_trigger reaches the registration call.
RegistersWebhook(cfg) == cfg.enable_alarm_announce /\ cfg.webhook_id # ""

\* async_start: does nothing when already running; else marks the manager
\* running and, when configured, installs the listeners and registers the
\* webhook. The host may refuse the registration, and refuses an id that is
\* already registered; the refusal is not caught.
AsyncStart ==
    /\ Len(auto_ops) < MaxOps
    /\ auto_ops' = Append(auto_ops, "start")
    /\ IF is_running
       THEN /\ auto_raised' = FALSE
            /\ UNCHANGED <<is_running, listeners, auto_subs, auto_webhooks, auto_next_id>>
       ELSE /\ is_running' = TRUE
            /\ IF ~IsConfigured(auto_cfg)
               THEN /\ auto_raised' = FALSE
                    /\ UNCHANGED <<listeners, auto_subs, auto_webhooks, auto_next_id>>
               ELSE LET kinds == ListenerKinds(auto_cfg)
                        handles == [k \in 1..Len(kinds) |->
                                      [id |-> auto_next_id + k - 1, kind |-> kinds[k]]]
                    IN  /\ listeners' = listeners \o handles
                        /\ auto_subs' = auto_subs \cup Range(handles)
                        /\ auto_next_id' = auto_next_id + Len(handles)
                        /\ IF RegistersWebhook(auto_cfg)
                           THEN \E accepted \in BOOLEAN :
                                  /\ auto_cfg.webhook_id \in auto_webhooks => ~accepted
                                  /\ auto_raised' = ~accepted
                                  /\ auto_webhooks' =
                                        IF accepted
                                        THEN auto_webhooks \cup {auto_cfg.webhook_id}
                                        ELSE auto_webhooks
                           ELSE /\ auto_raised' = FALSE
                                /\ UNCHANGED auto_webhooks
    /\ UNCHANGED auto_cfg
    /\ UNCHANGED notAuto

\* async_stop: does nothing when not running; else marks the manager
\* stopped, calls every listener's release and clears the list. A release
\* that raises ends async_stop there. Webhooks are not touched.
AsyncStop ==
    /\ Len(auto_ops) < MaxOps
    /\ auto_ops' = Append(auto_ops, "stop")
    /\ IF ~is_running
       THEN /\ auto_raised' = FALSE
            /\ UNCHANGED <<is_running, listeners, auto_subs>>
       ELSE /\ is_running' = FALSE
            /\ \E failing \in SUBSET (1..Len(listeners)) :
                  LET called == IF failing = {} THEN listeners
                                ELSE SubSeq(listeners, 1, LowestOf(failing))
                  IN  /\ Cardinality(failing) <= MaxFailures
                      /\ auto_subs' = auto_subs \ Range(called)
                      /\ listeners' = IF failing = {} THEN <<>> ELSE listeners
                      /\ auto_raised' = (failing # {})
    /\ UNCHANGED <<auto_cfg, auto_webhooks, auto_next_id>>
    /\ UNCHANGED notAuto

AutoRest ==
    /\ is_running = FALSE
    /\ listeners = <<>>
    /\ auto_subs = {}
    /\ auto_webhooks = {}
    /\ auto_next_id = 1
    /\ auto_ops = <<>>
    /\ auto_raised = FALSE

AutoIdle ==
    /\ auto_cfg = [weather_entity |-> NoEntity, tts_ready |-> FALSE,
                   enable_time_based |-> FALSE, enable_sensor_triggered |-> FALSE,
                   presence_sensors |-> <<>>, enable_current_change_announce |-> FALSE,
                   enable_upcoming_change_announce |-> FALSE,
                   enable_alarm_announce |-> FALSE, webhook_id |-> ""]
    /\ AutoRest

AutoStart ==
    /\ auto_cfg \in AutoConfigs
    /\ AutoRest

AutoNext == AsyncStart \/ AsyncStop

(***************************************************************************)
(* Sensor trigger: _setup_sensor_triggers and its handler _sensor_changed  *)
(***************************************************************************)
Entities == {"binary_sensor.door", "cover.garage", "sensor.other"}
SensorStates == {"on", "off", "open"}
NoTriggerState == "unset"   \* the mapping has no trigger_state
DefaultTriggerState == "on"
Mapping(e, st) == [entity_id |-> e, trigger_state |-> st]

SensorTriggerChoices ==
    {<<>>,
     <<Mapping("binary_sensor.door", "on")>>,
     <<Mapping("binary_sensor.door", "off"), Mapping("cover.garage", "open")>>,
     <<Mapping("binary_sensor.door", "on"), Mapping("binary_sensor.door", "off")>>,
     <<Mapping("", "on"), Mapping("cover.garage", NoTriggerState)>>}

\* trigger.get("trigger_state", "on")
TriggerStateOf(m) ==
    IF m.trigger_state = NoTriggerState THEN DefaultTriggerState ELSE m.trigger_state

\* The loop that fills trigger_map: a mapping without entity id is left
\* out, a later mapping of an entity replaces an earlier one.
RECURSIVE BuildTriggerMap(_, _)
BuildTriggerMap(triggers, n) ==
    IF n = 0 THEN [e \in {} |-> DefaultTriggerState]
    ELSE LET before == BuildTriggerMap(triggers, n - 1)
             m == triggers[n]
         IN  IF m.entity_id = "" THEN before
             ELSE [e \in DOMAIN before \cup {m.entity_id} |->
                      IF e = m.entity_id THEN TriggerStateOf(m) ELSE before[e]]

\* A mutant of SensorEnters: the old state is not looked at.
SensorEntersAnyOld(old, new, target) == new = target

\* if old_state.state != target_state and new_state.state == target_state
SensorEnters(old, new, target) == old # target /\ new = target

\* _sensor_changed: whether the handler creates the forecast task.
SensorChangedFires(e, old, new, map) ==
    /\ new # NoState
    /\ old # NoState
    /\ e \in DOMAIN map
    /\ SensorEnters(old, new, map[e])

\* _setup_sensor_triggers: builds the map and, unless it is empty,
\* subscribes to the state changes of its entities.
SetupSensorTriggers ==
    /\ ~sensor_armed
    /\ trigger_map' = BuildTriggerMap(sensor_triggers, Len(sensor_triggers))
    /\ DOMAIN trigger_map' # {}
    /\ sensor_armed' = TRUE
    /\ UNCHANGED <<sensor_triggers, sensor_states, sensor_log>>
    /\ UNCHANGED notSensor

\* An entity's state changes in the host (it may appear, go away, or keep
\* its state while an attribute changes); the host calls the handler for
\* the entities subscribed to.
SensorEvent ==
    /\ Len(sensor_log) < MaxEvents
    /\ \E e \in Entities, new \in SensorStates \cup {NoState} :
          LET old == sensor_states[e] IN
          /\ ~(old = NoState /\ new = NoState)
          /\ sensor_states' = [sensor_states EXCEPT ![e] = new]
          /\ sensor_log' = Append(sensor_log,
                [entity |-> e, old |-> old, new |-> new, armed |-> sensor_armed,
                 fired |-> /\ sensor_armed
                           /\ e \in DOMAIN trigger_map
                           /\ SensorChangedFires(e, old, new, trigger_map)])
    /\ UNCHANGED <<sensor_triggers, trigger_map, sensor_armed>>
    /\ UNCHANGED notSensor

SensorRest ==
    /\ trigger_map = [e \in {} |-> DefaultTriggerState]
    /\ sensor_armed = FALSE
    /\ sensor_log = <<>>

SensorIdle ==
    /\ sensor_triggers = <<>>
    /\ sensor_states = [e \in Entities |-> NoState]
    /\ SensorRest

SensorStart ==
    /\ sensor_triggers \in SensorTriggerChoices
    /\ sensor_states \in [Entities -> {"off", NoState}]
    /\ SensorRest

SensorNext == SetupSensorTriggers \/ SensorEvent

(***************************************************************************)
(* Webhook requests: _handle_webhook and _fire_webhook_forecast            *)
(***************************************************************************)
Methods == {"GET", "HEAD", "POST", "PUT"}
NoName == "unset"       \* the object has no "name"
NeverTriggered == 0     \* the store has no entry for the id

\* A request body: none, bytes that are not JSON, a JSON object with or
\* without "name" and "volume", or a JSON value of another type.
JsonObjects == [kind : {"object"}, name : {NoName, "", "Bo"}, volume : {NoVolume, 0, 40}]
Other(kind) == [kind |-> kind, name |-> NoName, volume |-> NoVolume]
Bodies == JsonObjects \cup {Other(k) : k \in {"none", "garbage", "array", "null", "string"}}
EmptyObject == [kind |-> "object", name |-> NoName, volume |-> NoVolume]

HookNameChoices ==
    {[w \in {"w1", "w2"} |-> IF w = "w1" THEN "Ann" ELSE ""],
     [w \in {"w0"} |-> "Cy"]}

\* if request.method in ("POST", "PUT")
ReadsBody(method) == method \in {"POST", "PUT"}

\* data = {}; try: data = await request.json(); except Exception: pass
ParsedData(method, body) ==
    IF ReadsBody(method) /\ body.kind \notin {"none", "garbage"} THEN body ELSE EmptyObject

\* data.get(...) raises AttributeError when the JSON value is not an object.
GetRaises(data) == data.kind # "object"

\* req_name = data.get("name") or name
ReqName(data, name) == IF data.name \in {NoName, ""} THEN name ELSE data.name

\* One request to the webhook with id w: the handler reads the body,
\* records the time under its id and calls _fire_webhook_forecast, which
\* announces when media players are configured.
HandleWebhook ==
    /\ Len(hook_log) < MaxRequests
    /\ \E w \in DOMAIN hook_names, method \in Methods, body \in Bodies :
          LET data == ParsedData(method, body)
              raised == GetRaises(data)
          IN  /\ hook_clock' = hook_clock + 1
              /\ last_triggered' =
                    IF raised THEN last_triggered
                    ELSE [last_triggered EXCEPT ![w] = hook_clock']
              /\ hook_log' = Append(hook_log,
                    [id |-> w, method |-> method, body |-> body,
                     body_read |-> ReadsBody(method), raised |-> raised,
                     called |-> ~raised,
                     name |-> IF raised THEN NoName ELSE ReqName(data, hook_names[w]),
                     volume |-> IF raised THEN NoVolume ELSE data.volume,
                     announced |-> ~raised /\ hook_media,
                     before |-> last_triggered, after |-> last_triggered',
                     at |-> hook_clock'])
    /\ UNCHANGED <<hook_names, hook_media>>
    /\ UNCHANGED notHook

HookRest ==
    /\ last_triggered = [w \in WebhookIds |-> NeverTriggered]
    /\ hook_clock = 0
    /\ hook_log = <<>>

HookIdle ==
    /\ hook_names = [w \in {} |-> ""]
    /\ hook_media = FALSE
    /\ HookRest

HookStart ==
    /\ hook_names \in HookNameChoices
    /\ hook_media \in BOOLEAN
    /\ HookRest

HookNext == HandleWebhook

(***************************************************************************)
(* AI rewrite: send_tts_with_ai_rewrite, which ends in send_tts            *)
(***************************************************************************)
Missing == "<missing>"      \* the response has no such key
NonString == "<number>"     \* a value that is not a string (and not falsy)
NoMessage == "<none>"       \* send_tts has not been called
Messages == {"Rain soon.", " "}

\* What ai_task.generate_data gives: it raises, or returns None, a list, or
\* a dict with some of the keys output, text and result.
AiDicts ==
    [kind : {"dict"}, output : {Missing, "", " ", "O", NonString},
     text : {Missing, "T"}, result : {Missing, "R"}]
AiOther(kind) == [kind |-> kind, output |-> Missing, text |-> Missing, result |-> Missing]
AiResponses == AiDicts \cup {AiOther(k) : k \in {"raises", "none", "list"}}

AiConfigs == [use_ai_rewrite : BOOLEAN, ai_task_entity : BOOLEAN, response : AiResponses]

\* Python truthiness of a field value.
Truthy(v) == v \notin {Missing, ""}

\* result.get("output") or result.get("text") or result.get("result")
Rewritten(r) ==
    IF Truthy(r.output) THEN r.output ELSE IF Truthy(r.text) THEN r.text ELSE r.result

\* if rewritten and isinstance(rewritten, str)
UsableText(v) == Truthy(v) /\ v # NonString

\* The message send_tts_with_ai_rewrite hands to send_tts.
FinalMessage(cfg, message) ==
    IF /\ cfg.use_ai_rewrite
       /\ cfg.ai_task_entity
       /\ cfg.response.kind = "dict"
       /\ UsableText(Rewritten(cfg.response))
    THEN Rewritten(cfg.response)
    ELSE message

\* not message or not message.strip()
IsBlank(message) == message \in {"", " "}

\* send_tts_with_ai_rewrite up to its call of send_tts.
AiRewrite ==
    /\ d_pc = "rewrite"
    /\ final_message' = FinalMessage(ai_cfg, original)
    /\ message_blank' = IsBlank(final_message')
    /\ d_pc' = "idle"
    /\ UNCHANGED <<sinks, d_i, call_log, d_raised, volume_override, volume_levels,
                   ai_cfg, original>>
    /\ UNCHANGED notRewrite

RewriteIdle ==
    /\ ai_cfg = [use_ai_rewrite |-> FALSE, ai_task_entity |-> FALSE,
                 response |-> AiOther("none")]
    /\ original = "Rain soon."
    /\ final_message = NoMessage

RewriteStart ==
    /\ ai_cfg \in AiConfigs
    /\ original \in Messages
    /\ final_message = NoMessage
    /\ sinks \in SinkLists
    /\ message_blank = IsBlank(original)
    /\ d_pc = "rewrite"
    /\ d_i = 0
    /\ call_log = <<>>
    /\ d_raised = FALSE
    /\ volume_override = NoVolume
    /\ volume_levels = <<>>

RewriteNext == AiRewrite \/ DispNext

(***************************************************************************)
(* Overlapping firings: a scheduled forecast and a webhook forecast        *)
(***************************************************************************)
\* The scheduled forecast runs in the task _check_and_fire creates; the
\* webhook forecast runs in the task of the request's handler.
Firings == {"scheduled", "webhook"}

NotFired == [pc |-> "none", i |-> 0]

\* A mutant of MayFire: a firing waits until no other announcement is
\* being delivered.
MayFireExclusive(f) ==
    /\ firings[f].pc = "none"
    /\ \A g \in Firings \ {f} : firings[g].pc \in {"none", "done"}

\* _check_and_fire and _handle_webhook start the announcement whatever
\* other announcement is being delivered: nothing is tested, no lock taken.
MayFire(f) == firings[f].pc = "none"

\* Where the loop of send_tts stands once it has moved on from sink i.
AtNextSink(i) ==
    LET j == NextProcessed(sinks, i + 1) IN
    [pc |-> IF j > Len(sinks) THEN "done" ELSE FirstCall, i |-> j]

\* The trigger fires: its task runs _fire_scheduled_forecast or
\* _fire_webhook_forecast into send_tts, up to the first sink call.
Fire(f) ==
    /\ MayFire(f)
    /\ firings' = [firings EXCEPT ![f] = AtNextSink(0)]
    /\ UNCHANGED overlap_log
    /\ UNCHANGED notOverlap

\* The call task f is suspended in returns or raises, and the task runs to
\* its next call or to its end.
FiringCall(f) ==
    LET at == firings[f] IN
    /\ at.pc \in {"volume", "preroll", "speak", "delay"}
    /\ overlap_log' = Append(overlap_log, [firing |-> f, kind |-> at.pc, sink |-> at.i])
    /\ \E ok \in BOOLEAN :
          firings' = [firings EXCEPT ![f] =
              CASE at.pc = "volume" ->
                     [pc |-> IF sinks[at.i].preroll THEN "preroll" ELSE "speak", i |-> at.i]
                [] at.pc = "preroll" -> [pc |-> "speak", i |-> at.i]
                [] at.pc = "speak" ->
                     IF ok /\ DelayAfter(at.i, sinks)
                     THEN [pc |-> "delay", i |-> at.i]
                     ELSE AtNextSink(at.i)
                [] at.pc = "delay" -> AtNextSink(at.i)]
    /\ UNCHANGED notOverlap

ScheduledFires == Fire("scheduled")
WebhookFires == Fire("webhook")
ScheduledCall == FiringCall("scheduled")
WebhookCall == FiringCall("webhook")

OverlapIdle ==
    /\ firings = [f \in Firings |-> NotFired]
    /\ overlap_log = <<>>

\* Both triggers are armed; media_players is not empty, and its sinks
\* have no preroll wait.
OverlapStart ==
    /\ OverlapIdle
    /\ sinks \in SeqsUpTo({mp \in SinkRecords : ~mp.preroll}, MaxOverlapSinks) \ {<<>>}
    /\ message_blank = FALSE
    /\ d_pc = "idle"
    /\ d_i = 0
    /\ call_log = <<>>
    /\ d_raised = FALSE
    /\ volume_override = NoVolume
    /\ volume_levels = <<>>

OverlapNext == ScheduledFires \/ WebhookFires \/ ScheduledCall \/ WebhookCall

(***************************************************************************)
(* Announcements around TTSTriggerManager.async_unload                     *)
(***************************************************************************)
\* What the host can deliver: a matching clock minute, a state change of
\* the weather entity, a 5-minute tick, a state change of a mapped sensor,
\* a request to a webhook id.
EventKinds == {"time", "change", "upcoming", "sensor"} \cup WebhookIds

\* The handlers the host calls for the event: every installed listener of
\* its kind (none of the time-based ones matches when hour_pattern is 0),
\* or the handler registered for the webhook id.
HandlersCalled(ev) ==
    IF ev \in WebhookIds THEN (IF ev \in host_webhooks THEN 1 ELSE 0)
    ELSE IF ev = "time" /\ life_cfg.hour_pattern.value <= 0 THEN 0
    ELSE Cardinality({h \in host_subs : h.kind = ev})

NoEvent == [started |-> 0, at |-> 0]

\* The host delivers an event; every handler called starts an announcement
\* (hass.async_create_task, or the request's own task), which then
\* stands before its first sink call.
HostEvent ==
    /\ \E ev \in EventKinds :
          LET n == HandlersCalled(ev) IN
          /\ Len(tasks) + n <= MaxTasks
          /\ tasks' = tasks \o [k \in 1..n |->
                 [left |-> MaxTaskCalls, born |-> Len(life_ops), last_call |-> 0]]
          /\ last_event' = [started |-> n, at |-> Len(life_ops) + 1]
    /\ UNCHANGED notStop

\* A sink call of an announcement task returns or raises.
TaskCall ==
    /\ \E k \in 1..Len(tasks) :
          /\ tasks[k].left > 0
          /\ tasks' = [tasks EXCEPT ![k].left = @ - 1, ![k].last_call = Len(life_ops)]
    /\ UNCHANGED last_event
    /\ UNCHANGED notStop

StopIdle ==
    /\ tasks = <<>>
    /\ last_event = NoEvent

\* The time-based trigger and the webhooks are enabled, alone or with
\* every other trigger kind; a weather entity and a sensor mapping are
\* configured and hour_pattern is a positive integer.
StopStart ==
    /\ life_cfg \in {cfg \in LifeConfigs :
          /\ cfg.enabled /\ cfg.weather_entity /\ cfg.sensor_mapped
          /\ {"time", "webhook"} \subseteq cfg.kinds
          /\ cfg.hour_pattern = [type |-> "int", value |-> 3]}
    /\ LifeRest
    /\ StopIdle

StopNext == AsyncSetup \/ AsyncUnload \/ HostEvent \/ TaskCall

(***************************************************************************)
(* Message builders: build_scheduled_forecast and build_webhook_message    *)
(***************************************************************************)
NoNumber == -1          \* None where a number is expected
ScanLimit == 12         \* hourly[:12]

\* weather_data["current"]: None (present = FALSE), or the coordinator's
\* record of condition, state and temperature, each of which may be None.
NoCurrent ==
    [present |-> FALSE, condition |-> Missing, state |-> Missing, temperature |-> NoNumber]

CurrentChoices ==
    {NoCurrent} \cup
    [present : {TRUE}, condition : {Missing, "rainy"}, state : {Missing, "partlycloudy"},
     temperature : {NoNumber, 70}]

DailyRecords ==
    {[temperature |-> 75, templow |-> 55, condition |-> "sunny"],
     [temperature |-> 75, templow |-> NoNumber, condition |-> Missing],
     [temperature |-> NoNumber, templow |-> 55, condition |-> "sunny"]}

\* An hourly entry without its time: whether its "datetime" string carries
\* an offset, its precipitation_probability and its condition.
HourlyKinds ==
    {[aware |-> TRUE, prob |-> 40, cond |-> "rainy"],
     [aware |-> TRUE, prob |-> 30, cond |-> Missing],
     [aware |-> TRUE, prob |-> 20, cond |-> "rainy"],
     [aware |-> TRUE, prob |-> NoNumber, cond |-> "rainy"],
     [aware |-> FALSE, prob |-> 40, cond |-> "rainy"]}

DryHour == [aware |-> TRUE, prob |-> 10, cond |-> "sunny"]

\* An hourly forecast in chronological order: entry k is for the hour
\* first + k, in minutes.
Timed(list, first) ==
    [k \in 1..Len(list) |->
        [t |-> (first + k) * MinutesPerHour, aware |-> list[k].aware,
         prob |-> list[k].prob, cond |-> list[k].cond]]

\* Some dry hours (none, one less than the builders look at, or as many),
\* then up to MaxTail hours of any kind; the first hour is the one after
\* now, or two hours back.
HourlyForecasts ==
    {Timed([k \in 1..n |-> DryHour] \o tail, first) :
        n \in {0, ScanLimit - 1, ScanLimit},
        tail \in SeqsUpTo(HourlyKinds, MaxTail),
        first \in {-2, 0}}

Snapshots ==
    [current : CurrentChoices, hourly_forecast : HourlyForecasts,
     daily_forecast : SeqsUpTo(DailyRecords, MaxDaily)]

\* _normalize_condition
NormalizeCondition(condition) ==
    IF condition = Missing \/ condition = "" THEN "current conditions"
    ELSE IF condition = "partlycloudy" THEN "partly cloudy"
    ELSE condition

\* _get_time_description: the phrase, and for "around" the hour spoken.
TimeDescription(t, n) ==
    IF t - n < MinutesPerHour THEN [phrase |-> "within the hour", at |-> NoNumber]
    ELSE IF t - n < 2 * MinutesPerHour THEN [phrase |-> "in about an hour", at |-> NoNumber]
    ELSE IF t - n < 3 * MinutesPerHour THEN [phrase |-> "in a couple hours", at |-> NoNumber]
    ELSE [phrase |-> "around", at |-> t]

\* hourly[:12]
Scanned(hourly) ==
    SubSeq(hourly, 1, IF Len(hourly) < ScanLimit THEN Len(hourly) ELSE ScanLimit)

\* h_time <= now raises TypeError when h_time has no offset: now has one.
ScanRaises(hourly) == \E k \in 1..Len(Scanned(hourly)) : ~hourly[k].aware

\* h.get("precipitation_probability", 0) or 0
ProbOrZero(p) == IF p = NoNumber THEN 0 ELSE p

\* _get_upcoming_precipitation
UpcomingPrecipitation(hourly, threshold, n) ==
    SelectSeq(Scanned(hourly), LAMBDA h : h.t > n /\ ProbOrZero(h.prob) >= threshold)

\* One sentence of a message: the f-string it comes from and the values
\* put into it.
Sentence(kind, temp, low, cond, when, prob) ==
    [kind |-> kind, temp |-> temp, low |-> low, cond |-> cond,
     phrase |-> when.phrase, at |-> when.at, prob |-> prob]

NoTime == [phrase |-> "", at |-> NoNumber]

\* The sentence for the first upcoming precipitation.
PrecipSentence(kind, first, n) ==
    Sentence(kind, NoNumber, NoNumber, NormalizeCondition(first.cond),
             TimeDescription(first.t, n), first.prob)

\* if temp is not None: the sentence for the current conditions
CurrentParts(kind, current) ==
    IF current.temperature # NoNumber
    THEN <<Sentence(kind, current.temperature, NoNumber,
                    NormalizeCondition(IF current.condition # Missing
                                       THEN current.condition ELSE current.state),
                    NoTime, NoNumber)>>
    ELSE <<>>

\* if today: the high and the low, or the high alone
TodayParts(daily) ==
    IF daily = <<>> THEN <<>>
    ELSE LET today == daily[1] IN
         IF today.temperature # NoNumber /\ today.templow # NoNumber
         THEN <<Sentence("today", today.temperature, today.templow,
                         NormalizeCondition(today.condition), NoTime, NoNumber)>>
         ELSE IF today.temperature # NoNumber
         THEN <<Sentence("today_high", today.temperature, NoNumber, "", NoTime, NoNumber)>>
         ELSE <<>>

\* if len(daily) > 1: the preview of tomorrow
TomorrowParts(daily) ==
    IF Len(daily) > 1 /\ daily[2].temperature # NoNumber
    THEN <<Sentence("tomorrow", daily[2].temperature, NoNumber,
                    NormalizeCondition(daily[2].condition), NoTime, NoNumber)>>
    ELSE <<>>

Greeting == Sentence("greeting", NoNumber, NoNumber, "", NoTime, NoNumber)

Raised(builder) == [builder |-> builder, raised |-> TRUE, parts |-> <<>>]

\* build_scheduled_forecast. current.get raises AttributeError when
\* current is None. The coordinator's hourly entries carry no wind fields,
\* so the builders never add a wind sentence.
ScheduledForecast(data, n) ==
    IF ~data.current.present \/ ScanRaises(data.hourly_forecast)
    THEN Raised("scheduled")
    ELSE LET upcoming == UpcomingPrecipitation(data.hourly_forecast, precip_threshold, n)
         IN  [builder |-> "scheduled", raised |-> FALSE,
              parts |-> <<Greeting>>
                        \o CurrentParts("current", data.current)
                        \o TodayParts(data.daily_forecast)
                        \o (IF upcoming # <<>>
                            THEN <<PrecipSentence("precip", upcoming[1], n)>> ELSE <<>>)
                        \o TomorrowParts(data.daily_forecast)]

NoPrecipitation == Sentence("no_precipitation", NoNumber, NoNumber, "", NoTime, NoNumber)

\* build_webhook_message: the high and the low of today without the
\* condition, and "No precipitation expected today." when nothing is upcoming.
WebhookMessage(data, n) ==
    IF ~data.current.present \/ ScanRaises(data.hourly_forecast)
    THEN Raised("webhook")
    ELSE LET upcoming == UpcomingPrecipitation(data.hourly_forecast, precip_threshold, n)
             today == TodayParts(data.daily_forecast)
         IN  [builder |-> "webhook", raised |-> FALSE,
              parts |-> <<Greeting>>
                        \o CurrentParts("current", data.current)
                        \o (IF today = <<>> THEN <<>>
                            ELSE <<Sentence(today[1].kind, today[1].temp, today[1].low, "",
                                            NoTime, NoNumber)>>)
                        \o (IF upcoming # <<>>
                            THEN <<PrecipSentence("precip", upcoming[1], n)>>
                            ELSE <<NoPrecipitation>>)]

NotBuilt == [builder |-> "none", raised |-> FALSE, parts |-> <<>>]

\* _fire_scheduled_forecast builds its message from the snapshot.
BuildScheduledForecast ==
    /\ built' = ScheduledForecast(snapshot, msg_now)
    /\ UNCHANGED <<snapshot, msg_now>>
    /\ UNCHANGED notMsg

\* _fire_webhook_forecast builds its message from the snapshot.
BuildWebhookMessage ==
    /\ built' = WebhookMessage(snapshot, msg_now)
    /\ UNCHANGED <<snapshot, msg_now>>
    /\ UNCHANGED notMsg

MsgIdle ==
    /\ snapshot = [current |-> NoCurrent, hourly_forecast |-> <<>>, daily_forecast |-> <<>>]
    /\ msg_now = 0
    /\ built = NotBuilt

MsgStart ==
    /\ snapshot \in Snapshots
    /\ msg_now \in {0, 30}
    /\ built = NotBuilt

MsgNext == BuildScheduledForecast \/ BuildWebhookMessage

(***************************************************************************)
(* Spoken numbers and times: _spell_number, _spell_time and                *)
(* build_upcoming_change_message                                           *)
(***************************************************************************)
\* const.NUMBER_WORDS
NUMBER_WORDS ==
    0 :> "zero" @@ 1 :> "one" @@ 2 :> "two" @@ 3 :> "three" @@ 4 :> "four" @@ 5 :> "five" @@
    6 :> "six" @@ 7 :> "seven" @@ 8 :> "eight" @@ 9 :> "nine" @@ 10 :> "ten" @@
    11 :> "eleven" @@ 12 :> "twelve" @@ 13 :> "thirteen" @@ 14 :> "fourteen" @@
    15 :> "fifteen" @@ 16 :> "sixteen" @@ 17 :> "seventeen" @@ 18 :> "eighteen" @@
    19 :> "nineteen" @@
    20 :> "twenty" @@ 30 :> "thirty" @@ 40 :> "forty" @@ 50 :> "fifty" @@
    60 :> "sixty" @@ 70 :> "seventy" @@ 80 :> "eighty" @@ 90 :> "ninety" @@
    100 :> "one hundred"

DigitChars == <<"0", "1", "2", "3", "4", "5", "6", "7", "8", "9">>

\* str(n) for n >= 0
RECURSIVE Str(_)
Str(n) == IF n < 10 THEN DigitChars[n + 1] ELSE Str(n \div 10) \o DigitChars[(n % 10) + 1]

\* NUMBER_WORDS.get(k, str(k))
WordOrDigits(k) == IF k \in DOMAIN NUMBER_WORDS THEN NUMBER_WORDS[k] ELSE Str(k)

\* A mutant of HundredsAndRemainder: the remainder is left out.
HundredsOnly(hundreds, rest) == WordOrDigits(hundreds) \o " hundred"

\* f"{hundreds word} hundred", then the words of the remainder if any
HundredsAndRemainder(hundreds, rest) ==
    IF rest = "" THEN WordOrDigits(hundreds) \o " hundred"
    ELSE WordOrDigits(hundreds) \o " hundred " \o rest

\* _spell_number, for an integer (int(round(n)) is n)
RECURSIVE SpellNumber(_)
SpellNumber(n) ==
    IF n < 0 THEN "negative " \o SpellNumber(0 - n)
    ELSE IF n \in DOMAIN NUMBER_WORDS THEN NUMBER_WORDS[n]
    ELSE IF n < 100 THEN
        LET tens == (n \div 10) * 10
            ones == n % 10
        IN  IF ones = 0 THEN (IF tens \in DOMAIN NUMBER_WORDS THEN NUMBER_WORDS[tens] ELSE Str(n))
            ELSE WordOrDigits(tens) \o " " \o WordOrDigits(ones)
    ELSE IF n = 100 THEN "one hundred"
    ELSE IF n < 1000 THEN
        HundredsAndRemainder(n \div 100,
                             IF n % 100 = 0 THEN "" ELSE SpellNumber(n % 100))
    ELSE Str(n)

\* A mutant of HourTwelve: hour 0 and hour 12 stay 0.
HourTwelveZero(hour) == hour % 12

\* hour_12 = hour % 12; if hour_12 == 0: hour_12 = 12
HourTwelve(hour) == IF hour % 12 = 0 THEN 12 ELSE hour % 12

\* _spell_time, for a datetime with this hour and minute
SpellTime(hour, minute) ==
    LET period == IF hour < 12 THEN "AM" ELSE "PM"
        hour_word == SpellNumber(HourTwelve(hour))
    IN  IF minute = 0 THEN hour_word \o " " \o period
        ELSE IF minute < 10 THEN hour_word \o " oh " \o SpellNumber(minute) \o " " \o period
        ELSE hour_word \o " " \o SpellNumber(minute) \o " " \o period

\* A mutant of RoundToFive: the minutes are rounded down.
RoundDownToFive(m) == (m \div 5) * 5

\* int(round(minutes_until / 5) * 5): m / 5 is never halfway between two
\* integers, so round goes to the nearer one.
RoundToFive(m) == IF m % 5 <= 2 THEN m - (m % 5) ELSE m + (5 - (m % 5))

\* The time_phrase of build_upcoming_change_message
TimePhrase(minutes_until) ==
    IF minutes_until < 5 THEN "very soon"
    ELSE IF minutes_until < 15 THEN "in about " \o SpellNumber(minutes_until) \o " minutes"
    ELSE IF minutes_until < 60
    THEN "in about " \o SpellNumber(RoundToFive(minutes_until)) \o " minutes"
    ELSE LET hours == minutes_until \div 60
         IN  "in about " \o SpellNumber(hours) \o (IF hours = 1 THEN " hour" ELSE " hours")

\* build_upcoming_change_message for precip_kind "rainy", after the
\* greeting with the time of day
UpcomingChangeMessage(minutes_until, probability) ==
    "weather alert. Rainy expected " \o TimePhrase(minutes_until) \o " with a "
        \o SpellNumber(probability) \o " percent chance."

NotSpoken == [text |-> "<none>", phrase |-> ""]

\* _spell_number(n) is called.
SpellNumberCall ==
    /\ arg.fn = "number"
    /\ spoken' = [text |-> SpellNumber(arg.a), phrase |-> ""]
    /\ UNCHANGED arg
    /\ UNCHANGED notSpell

\* _spell_time(dt) is called.
SpellTimeCall ==
    /\ arg.fn = "time"
    /\ spoken' = [text |-> SpellTime(arg.a, arg.b), phrase |-> ""]
    /\ UNCHANGED arg
    /\ UNCHANGED notSpell

\* build_upcoming_change_message(precip_kind, minutes_until, probability)
\* is called.
UpcomingChangeCall ==
    /\ arg.fn = "upcoming"
    /\ spoken' = [text |-> UpcomingChangeMessage(arg.a, arg.b), phrase |-> TimePhrase(arg.a)]
    /\ UNCHANGED arg
    /\ UNCHANGED notSpell

SpellIdle ==
    /\ arg = [fn |-> "none", a |-> 0, b |-> 0]
    /\ spoken = NotSpoken

SpellStart ==
    /\ arg \in [fn : {"number"}, a : 0..MaxNumber, b : {0}]
            \cup [fn : {"time"}, a : 0..23, b : 0..59]
            \cup [fn : {"upcoming"}, a : 0..MaxMinutes, b : {30, 100}]
    /\ spoken = NotSpoken

SpellNext == SpellNumberCall \/ SpellTimeCall \/ UpcomingChangeCall

(***************************************************************************)
(* Time-based trigger of HomeWeatherAutomation: check_schedule, called by  *)
(* async_track_time_interval once a minute, counted from the moment the    *)
(* trigger was set up, so a tick falls on any second of its minute.        *)
(***************************************************************************)
day_names == <<"mon", "tue", "wed", "thu", "fri", "sat", "sun">>

\* hour_pattern as the code reads it: whether it starts with "*/", and
\* int(hour_pattern[2:])
IntervalPatterns == [prefixed : BOOLEAN, interval : 0..2]

StoredSchedules ==
    [enable_time_based : BOOLEAN,
     hour_pattern : IntervalPatterns,
     minute_offset : {0, 1},
     start_time : {<<1, 0>>, <<1, 1>>},
     end_time : {<<2, 0>>, <<2, 1>>},
     days_of_week : SUBSET {"mon", "tue"}]

IntervalTicks == [weekday : {0, 1, 2}, hour : 0..3, minute : {0, 1, 2}, second : {0, 30}]

\* A datetime.time as seconds since midnight
TimeOfDay(h, m, sec) == (h * 60 + m) * 60 + sec

\* start <= current_time <= end: current_time = now.time() keeps the
\* seconds of the tick, start and end are time(hour, minute).
WithinStartEnd(cfg, t) ==
    LET current_time == TimeOfDay(t.hour, t.minute, t.second)
        start == TimeOfDay(cfg.start_time[1], cfg.start_time[2], 0)
        end == TimeOfDay(cfg.end_time[1], cfg.end_time[2], 0)
    IN  start <= current_time /\ current_time <= end

\* check_schedule(now) with the stored configuration cfg: "announce" when
\* it calls _announce_weather, "raised" when the try block caught an
\* error, else the test that made it return.
CheckSchedule(cfg, t) ==
    IF ~cfg.enable_time_based THEN "disabled"
    ELSE IF ~WithinStartEnd(cfg, t) THEN "outside"
    ELSE IF day_names[t.weekday + 1] \notin cfg.days_of_week THEN "day"
    ELSE IF cfg.hour_pattern.prefixed /\ cfg.hour_pattern.interval = 0 THEN "raised"
    ELSE IF cfg.hour_pattern.prefixed /\ t.hour % cfg.hour_pattern.interval # 0
    THEN "hour"
    ELSE IF t.minute # cfg.minute_offset THEN "minute"
    ELSE "announce"

NotChecked == "none"

\* The interval timer fires: check_schedule(now) runs to its end.
IntervalTick ==
    /\ \E t \in IntervalTicks :
          /\ interval_now' = t
          /\ schedule_outcome' = CheckSchedule(stored_schedule, t)
    /\ UNCHANGED stored_schedule
    /\ UNCHANGED notInterval

IntervalIdle ==
    /\ stored_schedule = [enable_time_based |-> FALSE,
                          hour_pattern |-> [prefixed |-> TRUE, interval |-> 1],
                          minute_offset |-> 0, start_time |-> <<1, 0>>,
                          end_time |-> <<2, 0>>, days_of_week |-> {}]
    /\ interval_now = [weekday |-> 0, hour |-> 0, minute |-> 0, second |-> 0]
    /\ schedule_outcome = NotChecked

IntervalStart ==
    /\ stored_schedule \in StoredSchedules
    /\ interval_now = [weekday |-> 0, hour |-> 0, minute |-> 0, second |-> 0]
    /\ schedule_outcome = NotChecked

IntervalNext == IntervalTick

(***************************************************************************)
(* Trigger reload and the upcoming-precipitation poll: async_unload and    *)
(* async_setup on the same TTSTriggerManager, as handle_set_config calls   *)
(* them, with the 5-minute timer firing while its subscription is          *)
(* installed.                                                              *)
(***************************************************************************)
\* The host calls _check_upcoming for an installed timer.
ArmedPollTick ==
    /\ \E h \in host_subs : h.kind = "upcoming"
    /\ PollTick

NotSetUp == [now |-> 0, fired |-> {}]

ReloadIdle == setup_seen = NotSetUp

ReloadStart ==
    /\ life_cfg = [enabled |-> TRUE, kinds |-> {"upcoming"}, weather_entity |-> TRUE,
                   sensor_mapped |-> FALSE, hooks |-> [list |-> <<>>, legacy |-> ""],
                   hour_pattern |-> [type |-> "int", value |-> 3]]
    /\ LifeRest
    /\ now = 0
    /\ hourly_forecast \in {f \in Forecasts : \A i \in 1..Len(f) : f[i].aware}
    /\ current_condition = "sunny"
    /\ media_players = TRUE
    /\ minutes_before \in MinutesBeforeChoices
    /\ upcoming_alert_fired = {}
    /\ poll_tasks = {}
    /\ precip_dispatched = {}
    /\ poll_outcome = "idle"
    /\ ReloadIdle

ReloadNext == AsyncSetup \/ AsyncUnload \/ ArmedPollTick \/ PollResume

(***************************************************************************)
(* HomeWeatherAutomation's handlers at the time they fire, with the stored *)
(* configuration changing between async_start and the firing.              *)
(***************************************************************************)
AutoKinds == {"time", "sensor", "change", "upcoming", "webhook"}

\* The key of the enable flag of a trigger kind
FlagName(kind) ==
    CASE kind = "time" -> "enable_time_based"
      [] kind = "sensor" -> "enable_sensor_triggered"
      [] kind = "change" -> "enable_current_change_announce"
      [] kind = "upcoming" -> "enable_upcoming_change_announce"
      [] kind = "webhook" -> "enable_alarm_announce"

\* A mutant of EnabledAtFire: the handler goes by the configuration that
\* installed it.
EnabledAtInstall(kind, cfg) == TRUE

\* current_config = await self.storage.async_get() and the handler's test
\* of its flag in it
EnabledAtFire(kind, cfg) ==
    CASE kind = "time" -> cfg.enable_time_based
      [] kind = "sensor" -> cfg.enable_sensor_triggered
      [] kind = "change" -> cfg.enable_current_change_announce
      [] kind = "upcoming" -> cfg.enable_upcoming_change_announce
      [] kind = "webhook" -> cfg.enable_alarm_announce

\* The trigger kinds with a handler installed in the host
InstalledKinds ==
    {h.kind : h \in auto_subs}
        \cup (IF auto_cfg.webhook_id \in auto_webhooks THEN {"webhook"} ELSE {})

NotFiredYet == [kind |-> "none", due |-> FALSE, enabled |-> FALSE, announced |-> FALSE]

\* The host calls an installed handler. due: what else the handler asks
\* for holds (the schedule matches, the sensor went on, precipitation is
\* near); announced: it called _announce_weather.
HandlerFires ==
    /\ \E kind \in InstalledKinds, due \in BOOLEAN :
          last_fire' = [kind |-> kind, due |-> due,
                        enabled |-> auto_cfg[FlagName(kind)],
                        announced |-> EnabledAtFire(kind, auto_cfg) /\ due]
    /\ UNCHANGED <<saves, last_save_at, completed_at>>
    /\ UNCHANGED autoVars
    /\ UNCHANGED notLive

\* async_save's validation: weather_entity, tts_engine and media_players
\* are there and not empty.
PassesValidation(cfg) == cfg.weather_entity \notin {NoEntity, ""} /\ cfg.tts_ready

\* A save switches the enable flag of one trigger kind.
FlagSaved ==
    /\ saves < MaxSaves
    /\ PassesValidation(auto_cfg)
    /\ saves' = saves + 1
    /\ last_save_at' = Len(auto_ops)
    /\ \E kind \in AutoKinds :
          auto_cfg' = [auto_cfg EXCEPT ![FlagName(kind)] = ~@]
    /\ UNCHANGED <<last_fire, completed_at>>
    /\ UNCHANGED <<is_running, listeners, auto_subs, auto_webhooks, auto_next_id,
                   auto_ops, auto_raised>>
    /\ UNCHANGED notLive

\* A save stores the weather entity that was missing: is_configured()
\* turns true.
ConfigCompleted ==
    /\ saves < MaxSaves
    /\ ~IsConfigured(auto_cfg)
    /\ saves' = saves + 1
    /\ last_save_at' = Len(auto_ops)
    /\ completed_at' = Len(auto_ops)
    /\ auto_cfg' = [auto_cfg EXCEPT !.weather_entity = "weather.home"]
    /\ UNCHANGED last_fire
    /\ UNCHANGED <<is_running, listeners, auto_subs, auto_webhooks, auto_next_id,
                   auto_ops, auto_raised>>
    /\ UNCHANGED notLive

LiveIdle ==
    /\ last_fire = NotFiredYet
    /\ saves = 0
    /\ last_save_at = -1
    /\ completed_at = -1

LiveStart ==
    /\ auto_cfg \in {cfg \in AutoConfigs :
          /\ cfg.weather_entity \in {NoEntity, "weather.home"}
          /\ cfg.tts_ready
          /\ cfg.presence_sensors = <<"binary_sensor.hall">>
          /\ cfg.webhook_id = "w0"
          /\ \A kind \in AutoKinds : cfg[FlagName(kind)]}
    /\ AutoRest
    /\ LiveIdle

LiveNext == AsyncStart \/ AsyncStop \/ HandlerFires \/ FlagSaved \/ ConfigCompleted

(***************************************************************************)
(* Storage: HomeWeatherStorage.async_save and async_get, and the           *)
(* set_config command that saves and then reloads the triggers.            *)
(***************************************************************************)
\* A configuration as async_save looks at it: "" and 0 stand for a missing
\* or empty value.
StoreConfigs ==
    [weather_entity : {"", "weather.a", "weather.b", "weather.c"},
     tts_engine : {"", "tts.x"},
     media_players : {0, 1}]

\* The three tests of async_save that raise ValueError
ValidationError(data) ==
    IF data.weather_entity = "" THEN "weather_entity is required"
    ELSE IF data.tts_engine = "" THEN "tts_engine is required"
    ELSE IF data.media_players = 0 THEN "At least one media_player is required"
    ELSE "none"

\* self._data = data comes before the awaited write, so a write that
\* raises leaves the new data in self._data.
DataAfterFailedWrite(before, data) == data

\* async_get(): a copy of self._data (never empty here, so no load)
AsyncGet == store_data

NoSave == [data |-> [weather_entity |-> "", tts_engine |-> "", media_players |-> 0],
           before |-> [weather_entity |-> "", tts_engine |-> "", media_players |-> 0],
           reloads_before |-> 0, error |-> "no call"]

\* handle_set_config: async_save(config), then the reload of the triggers;
\* anything raised is caught and answered with save_failed. The store
\* write may fail.
SetConfig ==
    /\ reloads < MaxSaves
    /\ \E data \in StoreConfigs, written \in BOOLEAN :
          LET error == IF ValidationError(data) # "none" THEN ValidationError(data)
                       ELSE IF ~written THEN "write failed"
                       ELSE "none"
          IN  /\ last_save' = [data |-> data, before |-> store_data,
                               reloads_before |-> reloads, error |-> error]
              /\ store_data' = IF ValidationError(data) # "none" THEN store_data
                               ELSE IF ~written
                               THEN DataAfterFailedWrite(store_data, data)
                               ELSE data
              /\ store_file' = IF error = "none" THEN data ELSE store_file
              /\ reloads' = IF error = "none" THEN reloads + 1 ELSE reloads
    /\ UNCHANGED notStore

StoreIdle ==
    /\ store_data = [weather_entity |-> "weather.a", tts_engine |-> "tts.x",
                     media_players |-> 1]
    /\ store_file = store_data
    /\ reloads = 0
    /\ last_save = NoSave

StoreStart ==
    /\ store_data \in {cfg \in StoreConfigs : ValidationError(cfg) = "none"}
    /\ store_file = store_data
    /\ reloads = 0
    /\ last_save = NoSave

StoreNext == SetConfig

(***************************************************************************)
(* Specifications.                                                         *)
(***************************************************************************)
PrecipInit == PrecipStart /\ ChangeIdle /\ TimeIdle /\ DispIdle /\ LifeIdle /\ AutoIdle /\ SensorIdle
    /\ HookIdle /\ RewriteIdle
    /\ OverlapIdle
    /\ StopIdle
    /\ MsgIdle
    /\ SpellIdle
    /\ IntervalIdle
    /\ ReloadIdle
    /\ LiveIdle
    /\ StoreIdle

SpecPrecip == PrecipInit /\ [][PrecipNext]_vars

PrecipLateInit ==
    PrecipLateStart /\ ChangeIdle /\ TimeIdle /\ DispIdle /\ LifeIdle /\ AutoIdle /\ SensorIdle
    /\ HookIdle /\ RewriteIdle
    /\ OverlapIdle
    /\ StopIdle
    /\ MsgIdle
    /\ SpellIdle
    /\ IntervalIdle
    /\ ReloadIdle
    /\ LiveIdle
    /\ StoreIdle

SpecPrecipLate == PrecipLateInit /\ [][PrecipLateNext]_vars

\* The polls of the longer run with the configured sinks told apart:
\* those send_tts processes and those its loop skips.
SinkPollInit ==
    /\ PrecipLateStart
    /\ media_players
    /\ sinks \in SeqsUpTo({mp \in SinkRecords : mp.volume = NoVolume}, MaxOverlapSinks)
                    \ {<<>>}
    /\ message_blank = FALSE
    /\ d_pc = "idle"
    /\ d_i = 0
    /\ call_log = <<>>
    /\ d_raised = FALSE
    /\ volume_override = NoVolume
    /\ volume_levels = <<>>
    /\ ChangeIdle /\ TimeIdle /\ LifeIdle /\ AutoIdle /\ SensorIdle
    /\ HookIdle /\ RewriteIdle /\ OverlapIdle /\ StopIdle /\ MsgIdle /\ SpellIdle
    /\ IntervalIdle
    /\ ReloadIdle
    /\ LiveIdle
    /\ StoreIdle

SpecSinkPoll == SinkPollInit /\ [][PrecipLateNext]_vars

ChangeInit == ChangeStart /\ PrecipIdle /\ TimeIdle /\ DispIdle /\ LifeIdle /\ AutoIdle /\ SensorIdle
    /\ HookIdle /\ RewriteIdle
    /\ OverlapIdle
    /\ StopIdle
    /\ MsgIdle
    /\ SpellIdle
    /\ IntervalIdle
    /\ ReloadIdle
    /\ LiveIdle
    /\ StoreIdle

SpecChange == ChangeInit /\ [][ChangeNext]_vars

TimeInit == TimeStart /\ PrecipIdle /\ ChangeIdle /\ DispIdle /\ LifeIdle /\ AutoIdle /\ SensorIdle
    /\ HookIdle /\ RewriteIdle
    /\ OverlapIdle
    /\ StopIdle
    /\ MsgIdle
    /\ SpellIdle
    /\ IntervalIdle
    /\ ReloadIdle
    /\ LiveIdle
    /\ StoreIdle

SpecTime == TimeInit /\ [][TimeNext]_vars

DispInit == DispStart /\ PrecipIdle /\ ChangeIdle /\ TimeIdle /\ LifeIdle /\ AutoIdle /\ SensorIdle
    /\ HookIdle /\ RewriteIdle
    /\ OverlapIdle
    /\ StopIdle
    /\ MsgIdle
    /\ SpellIdle
    /\ IntervalIdle
    /\ ReloadIdle
    /\ LiveIdle
    /\ StoreIdle

SpecDisp == DispInit /\ [][DispNext]_vars

LifeInit == LifeStart /\ PrecipIdle /\ ChangeIdle /\ TimeIdle /\ DispIdle /\ AutoIdle /\ SensorIdle
    /\ HookIdle /\ RewriteIdle
    /\ OverlapIdle
    /\ StopIdle
    /\ MsgIdle
    /\ SpellIdle
    /\ IntervalIdle
    /\ ReloadIdle
    /\ LiveIdle
    /\ StoreIdle

SpecLife == LifeInit /\ [][LifeNext]_vars

AutoInit == AutoStart /\ PrecipIdle /\ ChangeIdle /\ TimeIdle /\ DispIdle /\ LifeIdle /\ SensorIdle
    /\ HookIdle /\ RewriteIdle
    /\ OverlapIdle
    /\ StopIdle
    /\ MsgIdle
    /\ SpellIdle
    /\ IntervalIdle
    /\ ReloadIdle
    /\ LiveIdle
    /\ StoreIdle

SpecAuto == AutoInit /\ [][AutoNext]_vars

SensorInit ==
    SensorStart /\ PrecipIdle /\ ChangeIdle /\ TimeIdle /\ DispIdle /\ LifeIdle /\ AutoIdle
    /\ HookIdle /\ RewriteIdle
    /\ OverlapIdle
    /\ StopIdle
    /\ MsgIdle
    /\ SpellIdle
    /\ IntervalIdle
    /\ ReloadIdle
    /\ LiveIdle
    /\ StoreIdle

SpecSensor == SensorInit /\ [][SensorNext]_vars

HookInit ==
    HookStart /\ PrecipIdle /\ ChangeIdle /\ TimeIdle /\ DispIdle /\ LifeIdle /\ AutoIdle
    /\ SensorIdle /\ RewriteIdle
    /\ OverlapIdle
    /\ StopIdle
    /\ MsgIdle
    /\ SpellIdle
    /\ IntervalIdle
    /\ ReloadIdle
    /\ LiveIdle
    /\ StoreIdle

SpecHook == HookInit /\ [][HookNext]_vars

RewriteInit ==
    RewriteStart /\ PrecipIdle /\ ChangeIdle /\ TimeIdle /\ LifeIdle /\ AutoIdle
    /\ SensorIdle /\ HookIdle
    /\ OverlapIdle
    /\ StopIdle
    /\ MsgIdle
    /\ SpellIdle
    /\ IntervalIdle
    /\ ReloadIdle
    /\ LiveIdle
    /\ StoreIdle

SpecRewrite == RewriteInit /\ [][RewriteNext]_vars

OverlapInit ==
    OverlapStart /\ PrecipIdle /\ ChangeIdle /\ TimeIdle /\ LifeIdle /\ AutoIdle
    /\ SensorIdle /\ HookIdle /\ RewriteIdle
    /\ StopIdle
    /\ MsgIdle
    /\ SpellIdle
    /\ IntervalIdle
    /\ ReloadIdle
    /\ LiveIdle
    /\ StoreIdle

SpecOverlap == OverlapInit /\ [][OverlapNext]_vars

StopInit ==
    StopStart /\ PrecipIdle /\ ChangeIdle /\ TimeIdle /\ DispIdle /\ AutoIdle
    /\ SensorIdle /\ HookIdle /\ RewriteIdle /\ OverlapIdle
    /\ MsgIdle
    /\ SpellIdle
    /\ IntervalIdle
    /\ ReloadIdle
    /\ LiveIdle
    /\ StoreIdle

SpecStop == StopInit /\ [][StopNext]_vars

MsgInit ==
    MsgStart /\ PrecipIdle /\ ChangeIdle /\ TimeIdle /\ DispIdle /\ LifeIdle /\ AutoIdle
    /\ SensorIdle /\ HookIdle /\ RewriteIdle /\ OverlapIdle /\ StopIdle
    /\ SpellIdle
    /\ IntervalIdle
    /\ ReloadIdle
    /\ LiveIdle
    /\ StoreIdle

SpecMsg == MsgInit /\ [][MsgNext]_vars

SpellInit ==
    SpellStart /\ PrecipIdle /\ ChangeIdle /\ TimeIdle /\ DispIdle /\ LifeIdle /\ AutoIdle
    /\ SensorIdle /\ HookIdle /\ RewriteIdle /\ OverlapIdle /\ StopIdle /\ MsgIdle
    /\ IntervalIdle
    /\ ReloadIdle
    /\ LiveIdle
    /\ StoreIdle

SpecSpell == SpellInit /\ [][SpellNext]_vars

IntervalInit ==
    IntervalStart /\ PrecipIdle /\ ChangeIdle /\ TimeIdle /\ DispIdle /\ LifeIdle /\ AutoIdle
    /\ SensorIdle /\ HookIdle /\ RewriteIdle /\ OverlapIdle /\ StopIdle /\ MsgIdle
    /\ SpellIdle
    /\ ReloadIdle
    /\ LiveIdle
    /\ StoreIdle

SpecInterval == IntervalInit /\ [][IntervalNext]_vars

ReloadInit ==
    ReloadStart /\ ChangeIdle /\ TimeIdle /\ DispIdle /\ AutoIdle
    /\ SensorIdle /\ HookIdle /\ RewriteIdle /\ OverlapIdle /\ StopIdle /\ MsgIdle
    /\ SpellIdle /\ IntervalIdle
    /\ LiveIdle
    /\ StoreIdle

SpecReload == ReloadInit /\ [][ReloadNext]_vars

LiveInit ==
    LiveStart /\ PrecipIdle /\ ChangeIdle /\ TimeIdle /\ DispIdle /\ LifeIdle
    /\ SensorIdle /\ HookIdle /\ RewriteIdle /\ OverlapIdle /\ StopIdle /\ MsgIdle
    /\ SpellIdle /\ IntervalIdle /\ ReloadIdle
    /\ StoreIdle

SpecLive == LiveInit /\ [][LiveNext]_vars

StoreInit ==
    StoreStart /\ PrecipIdle /\ ChangeIdle /\ TimeIdle /\ DispIdle /\ LifeIdle /\ AutoIdle
    /\ SensorIdle /\ HookIdle /\ RewriteIdle /\ OverlapIdle /\ StopIdle /\ MsgIdle
    /\ SpellIdle /\ IntervalIdle /\ ReloadIdle /\ LiveIdle

SpecStore == StoreInit /\ [][StoreNext]_vars

(***************************************************************************)
(* C1: for a forecast hour T with probability >= threshold, the polls run  *)
(* while T lies in the alert window (now < T <= now + minutes_before)      *)
(* dispatch at most one upcoming-change announcement for T's hour key.     *)
(***************************************************************************)
InAlertWindow(n, t) == n < t /\ t <= n + minutes_before

C1_DedupPerHourKey ==
    \A a, b \in precip_dispatched :
        (/\ a.key = b.key
         /\ \E t \in EntryTimes :
               AlertKey(t) = a.key /\ InAlertWindow(a.now, t) /\ InAlertWindow(b.now, t))
        => a = b

\* A later poll ran while T was still in the window and its entry still
\* qualified, after T's key had been announced by an earlier poll.
C1_Witness ==
    \E a \in precip_dispatched :
        /\ a.now < now
        /\ InAlertWindow(now, a.t)
        /\ media_players
        /\ current_condition = "sunny"
        /\ hourly_forecast # <<>>
        /\ hourly_forecast[1] = [t |-> a.t, prob |-> precip_threshold, aware |-> TRUE]
        /\ poll_tasks = {}

(***************************************************************************)
(* C2: a state-change event with both states present creates the fire task *)
(* exactly when old # new and new # last_seen_condition, and               *)
(* last_seen_condition is new when the task is created; so A->B fires, a   *)
(* following B->B does not, and A->B followed by B->A fires twice.         *)
(***************************************************************************)
C2_CurrentChangeFires ==
    /\ \A i \in 1..Len(change_log) :
          LET e == change_log[i] IN
          (e.old # NoState /\ e.new # NoState) =>
              /\ e.fired <=> (e.old # e.new /\ e.new # e.last_before)
              /\ e.fired => e.last_at_fire = e.new
    /\ \A i \in 1..(Len(change_log) - 1) :
          LET e == change_log[i]
              f == change_log[i + 1]
          IN  (/\ e.old \in WeatherStates /\ e.new \in WeatherStates
               /\ e.old # e.new /\ e.last_before = e.old)
              => /\ e.fired
                 /\ (f.new = e.new) => ~f.fired
                 /\ (f.new = e.old) => f.fired

\* A->B fired and the following B->A fired as well.
C2_Witness ==
    /\ Len(change_log) >= 2
    /\ change_log[1].old = "sunny" /\ change_log[1].new = "rainy" /\ change_log[1].fired
    /\ change_log[2].old = "rainy" /\ change_log[2].new = "sunny" /\ change_log[2].fired

(***************************************************************************)
(* C3: on every tick (weekday, hour, minute) and for every configuration,  *)
(* the scheduled forecast is fired iff the weekday is in the allowed set,  *)
(* the clock time is within [start, end] inclusive, hour % interval = 0    *)
(* and minute = offset.                                                    *)
(***************************************************************************)
ConfiguredDays == {DayNumber(d) : d \in days_of_week} \ {-1}
ConfiguredStart == start_time[1] * 60 + start_time[2]
ConfiguredEnd == end_time[1] * 60 + end_time[2]
TickMinuteOfDay == tick.hour * 60 + tick.minute
WellFormedTimes == Len(start_time) = 2 /\ Len(end_time) = 2

\* The claim as stated: the allowed set and the window are the configured ones.
C3_AsStated ==
    tick # NoTick =>
        (sched_fired <=>
            /\ tick.weekday \in ConfiguredDays
            /\ ConfiguredStart <= TickMinuteOfDay /\ TickMinuteOfDay <= ConfiguredEnd
            /\ hour_pattern > 0 /\ tick.hour % hour_pattern = 0
            /\ tick.minute = minute_offset)

\* The claim as amended: a list that names no weekday allows every day, and
\* start and end that are not both "HH:MM" give the window 08:00 to 21:00.
C3_TimeBasedFires ==
    tick # NoTick =>
        (sched_fired <=>
            /\ (tick.weekday \in ConfiguredDays \/ ConfiguredDays = {})
            /\ IF WellFormedTimes
               THEN ConfiguredStart <= TickMinuteOfDay /\ TickMinuteOfDay <= ConfiguredEnd
               ELSE 8 * 60 <= TickMinuteOfDay /\ TickMinuteOfDay <= 21 * 60
            /\ hour_pattern > 0 /\ tick.hour % hour_pattern = 0
            /\ tick.minute = minute_offset)

\* A single-minute window (start = end) fired on its only minute.
C3_Witness ==
    /\ sched_fired
    /\ WellFormedTimes
    /\ ConfiguredStart = ConfiguredEnd
    /\ TickMinuteOfDay = ConfiguredEnd
    /\ days_of_week = {"Saturday", "sun"}
    /\ tick.weekday = 5

(***************************************************************************)
(* C4: whichever volume-set and speak calls fail, the dispatch returns     *)
(* without raising, every sink that has a TTS target receives its          *)
(* volume-set call followed by its speak call, in configured order, and a  *)
(* sink lacking a TTS target receives no call.                             *)
(***************************************************************************)
IsSinkCall(e) == e.kind \in {"volume", "speak"}

\* The volume-set and speak calls made, as <<kind, sink>> pairs in order.
SinkCalls ==
    LET calls == SelectSeq(call_log, IsSinkCall)
    IN  [k \in 1..Len(calls) |-> <<calls[k].kind, calls[k].sink>>]

\* volume-set then speak for each sink whose index is in served, in order.
RECURSIVE ExpectedCalls(_, _)
ExpectedCalls(i, served) ==
    IF i > Len(sinks) THEN <<>>
    ELSE (IF i \in served THEN << <<"volume", i>>, <<"speak", i>> >> ELSE <<>>)
         \o ExpectedCalls(i + 1, served)

WithTtsTarget == {i \in 1..Len(sinks) : sinks[i].tts}
WithEntityAndTtsTarget == {i \in 1..Len(sinks) : sinks[i].entity /\ sinks[i].tts}

\* The claim as stated: the sinks served are those with a TTS target.
C4_AsStated ==
    (d_pc = "done" /\ ~message_blank) =>
        /\ ~d_raised
        /\ SinkCalls = ExpectedCalls(1, WithTtsTarget)

\* The claim as amended: the sinks served are those with a media-player
\* entity id and a TTS target; a sink lacking either receives no call.
C4_FailureIsolation ==
    (d_pc = "done" /\ ~message_blank) =>
        /\ ~d_raised
        /\ SinkCalls = ExpectedCalls(1, WithEntityAndTtsTarget)

\* Three sinks, the middle one without TTS target; the first sink's
\* volume-set failed and the last sink's speak failed.
C4_Witness ==
    /\ d_pc = "done"
    /\ Len(sinks) = 3
    /\ Processed(sinks[1]) /\ ~sinks[2].tts /\ Processed(sinks[3])
    /\ \E k \in 1..Len(call_log) :
          call_log[k].kind = "volume" /\ call_log[k].sink = 1 /\ ~call_log[k].ok
    /\ \E k \in 1..Len(call_log) :
          call_log[k].kind = "speak" /\ call_log[k].sink = 3 /\ ~call_log[k].ok

(***************************************************************************)
(* C5: between every pair of consecutive sinks of one dispatch the pause   *)
(* is taken before the next sink's volume-set, also after a sink whose     *)
(* speak call failed, and no pause is taken after the last sink.           *)
(***************************************************************************)
C5_AsStated ==
    d_pc = "done" =>
        /\ \A k \in 2..Len(call_log) :
              call_log[k].kind = "volume" => call_log[k - 1].kind = "delay"
        /\ \A k \in 1..Len(call_log) :
              call_log[k].kind = "delay" => call_log[k].sink # Len(sinks)

LastOp == IF life_ops = <<>> THEN "none" ELSE life_ops[Len(life_ops)]
PrevOp == IF Len(life_ops) < 2 THEN "none" ELSE life_ops[Len(life_ops) - 1]
HandlesCreated == 1..(next_id - 1)

\* C6: async_unload is idempotent. Once async_unload has run, the release of
\* every subscription handle the manager created has been called exactly
\* once and every webhook id has been unregistered as many times as it was
\* registered, however many times async_unload ran; no release is ever
\* called twice; an async_unload that directly follows another calls nothing;
\* and no async_unload raises, one called before any async_setup included.
C6_IdempotentStop ==
    /\ \A id \in HandleIds : release_count[id] <= 1
    /\ \A w \in WebhookIds : unreg_count[w] <= reg_count[w]
    /\ LastOp = "unload" =>
          /\ ~unload_info.raised
          /\ \A id \in HandlesCreated : release_count[id] = 1
          /\ \A w \in WebhookIds : unreg_count[w] = reg_count[w]
    /\ (LastOp = "unload" /\ PrevOp = "unload") => unload_info.calls = 0

\* async_setup armed subscriptions and registered a webhook, then
\* async_unload ran twice in a row.
C6_Witness ==
    /\ life_ops = <<"setup", "unload", "unload">>
    /\ next_id > 2
    /\ reg_count["w1"] = 1
    /\ unreg_count["w1"] = 1

\* C7: after any sequence of async_setup and async_unload calls that ends
\* with async_unload, the host holds no timer, listener or webhook
\* registration of the manager, and _unsub_callbacks and
\* _registered_webhooks are empty.
C7_NoLeakedSubscriptions ==
    LastOp = "unload" =>
        /\ host_subs = {}
        /\ host_webhooks = {}
        /\ unsub_callbacks = <<>>
        /\ registered_webhooks = <<>>

\* Two async_setup calls armed subscriptions and webhooks twice over, and
\* one async_unload tore all of them down.
C7_Witness ==
    /\ life_ops = <<"setup", "setup", "unload">>
    /\ next_id > 4
    /\ reg_count["w1"] = 1
    /\ reg_count["w2"] = 1
    /\ host_subs = {}
    /\ host_webhooks = {}

\* C8, as stated: when async_stop directly follows async_start, no
\* time-interval listener, state-change listener or webhook registration
\* that async_start installed is left in the host.
C8_AsStated ==
    (Len(auto_ops) >= 2
     /\ auto_ops[Len(auto_ops)] = "stop"
     /\ auto_ops[Len(auto_ops) - 1] = "start") =>
        /\ auto_subs = {}
        /\ auto_webhooks = {}

\* C9: when a release or a webhook unregistration raises during
\* async_unload, async_unload does not raise, every handle and webhook it
\* held is still called, and both lists end empty.
C9_ReleaseFailureTolerated ==
    (LastOp = "unload" /\ unload_info.failures > 0) =>
        /\ ~unload_info.raised
        /\ unload_info.calls = unload_info.held
        /\ unsub_callbacks = <<>>
        /\ registered_webhooks = <<>>
        /\ host_subs = {}
        /\ host_webhooks = {}

\* One of at least three releases raised during an async_unload that held
\* both subscription handles and webhooks.
C9_Witness ==
    /\ LastOp = "unload"
    /\ unload_info.failures > 0
    /\ unload_info.held >= 3
    /\ unload_info.calls = unload_info.held
    /\ \E w \in WebhookIds : unreg_count[w] > 0
    /\ \E id \in HandleIds : release_count[id] > 0

\* C10, as stated: an async_setup that directly follows another async_setup
\* installs no further timer, listener or webhook registration, and one
\* matching clock tick creates at most one scheduled-forecast task.
C10_AsStated ==
    /\ (LastOp = "setup" /\ PrevOp = "setup") => setup_added = 0
    /\ tick_tasks <= 1

\* C11, as stated: when the arming of one trigger kind raises during
\* async_setup, async_setup does not raise and every other enabled trigger
\* kind whose arm condition holds, before or after it in the arming order,
\* is armed.
C11_AsStated ==
    (LastOp = "setup" /\ setup_outcome.failed # "none") =>
        /\ ~setup_outcome.raised
        /\ \A k \in Range(SubKinds) :
              (k # setup_outcome.failed /\ Installs(k, life_cfg))
                  => k \in setup_outcome.armed
        /\ HookIdsToRegister(life_cfg) # <<>> => "webhook" \in setup_outcome.armed

\* C12, as stated: no task running _check_upcoming_precip ends with an
\* exception escaping it.
C12_AsStated == poll_outcome # "raised"

\* C13, as stated: every poll that runs to its end leaves in
\* _upcoming_alert_fired only keys whose hour started less than 2 hours
\* before the poll's clock value.
C13_AsStated ==
    [][(now' # now /\ poll_outcome' # "dispatching")
          => \A k \in upcoming_alert_fired' :
                KeyTime(k).t > now' - PurgeHours * MinutesPerHour]_vars

\* The weather states in which precipitation is falling.
ActivelyPrecipitating(cond) == cond \in {"rainy", "pouring"}

\* Entry i has probability >= threshold, a time in (n, n + minutes_before]
\* and a key that has not fired.
Qualifies(i, n) ==
    /\ hourly_forecast[i].prob >= precip_threshold
    /\ InAlertWindow(n, hourly_forecast[i].t)
    /\ AlertKey(hourly_forecast[i].t) \notin upcoming_alert_fired

QualifyingEntries(n) == {i \in 1..Len(hourly_forecast) : Qualifies(i, n)}

\* C14, as stated: with sinks configured and a current condition present, a
\* poll dispatches an announcement exactly when the current condition is
\* not precipitating and some hourly entry qualifies; it then announces the
\* first qualifying entry and adds that entry's key to the fired set; a
\* poll starts at most one dispatch.
C14_AsStated ==
    [][(now' # now /\ media_players /\ current_condition # "none") =>
          LET n == now'
              started == precip_dispatched' \ precip_dispatched
              expected == /\ ~ActivelyPrecipitating(current_condition)
                          /\ QualifyingEntries(n) # {}
          IN  /\ (started # {}) <=> expected
              /\ Cardinality(started) <= 1
              /\ expected =>
                    LET first == hourly_forecast[LowestOf(QualifyingEntries(n))]
                    IN  /\ started = {[key |-> AlertKey(first.t), now |-> n, t |-> first.t]}
                        /\ AlertKey(first.t) \in upcoming_alert_fired']_vars

\* The arm condition of each trigger kind, as the arming table gives it.
StatedArmCondition(k, cfg) ==
    CASE k = "time" -> cfg.hour_pattern.value > 0
      [] k = "change" -> cfg.weather_entity
      [] k = "upcoming" -> TRUE
      [] k = "sensor" -> cfg.sensor_mapped
      [] k = "webhook" -> \E i \in 1..Len(EffectiveHooks(cfg)) :
                              /\ EffectiveHooks(cfg)[i].enabled
                              /\ EffectiveHooks(cfg)[i].id # ""

\* C15, as stated: after the first async_setup, completed without an arming
\* failure: with the top-level flag off nothing is installed; with it on, a
\* trigger kind is installed exactly when its enable flag is on and its arm
\* condition holds (time-based: interval > 0).
C15_AsStated ==
    (life_ops = <<"setup">> /\ setup_outcome.failed = "none") =>
        IF ~life_cfg.enabled
        THEN host_subs = {} /\ host_webhooks = {}
        ELSE \A k \in TriggerKinds :
                k \in setup_outcome.armed
                    <=> (k \in life_cfg.kinds /\ StatedArmCondition(k, life_cfg))

\* The mappings of entity e in the configuration, by position.
MappingsOf(e) == {i \in 1..Len(sensor_triggers) : sensor_triggers[i].entity_id = e}

HighestOf(S) == CHOOSE x \in S : \A y \in S : y <= x

\* The trigger state configured for a mapped entity e (its last mapping).
ConfiguredTriggerState(e) ==
    LET m == sensor_triggers[HighestOf(MappingsOf(e))]
    IN  IF m.trigger_state = NoTriggerState THEN "on" ELSE m.trigger_state

\* C16: once the sensor trigger is armed, a state change of an entity
\* creates the forecast task exactly when the entity is mapped, both states
\* are present, the old state is not the entity's configured trigger_state
\* and the new state is; a change whose old state already is the
\* trigger_state, or of an unmapped entity, creates none.
C16_SensorTrigger ==
    \A k \in 1..Len(sensor_log) :
        LET ev == sensor_log[k] IN
        ev.fired <=>
            /\ ev.armed
            /\ MappingsOf(ev.entity) # {}
            /\ ev.old # NoState
            /\ ev.new # NoState
            /\ ev.old # ConfiguredTriggerState(ev.entity)
            /\ ev.new = ConfiguredTriggerState(ev.entity)

\* A mapped entity entered its trigger state and fired, then changed again
\* with the old state already the trigger state and did not; an unmapped
\* entity took the same state and did not fire.
C16_Witness ==
    /\ Len(sensor_log) = 3
    /\ sensor_log[1].entity = "cover.garage" /\ sensor_log[1].fired
    /\ sensor_log[1].old = "off" /\ sensor_log[1].new = "open"
    /\ sensor_log[2].entity = "cover.garage" /\ sensor_log[2].old = "open"
    /\ sensor_log[2].new = "open" /\ ~sensor_log[2].fired
    /\ sensor_log[3].entity = "sensor.other" /\ sensor_log[3].new = "open"
    /\ sensor_log[3].old = "off" /\ ~sensor_log[3].fired

\* The name the request posts: the "name" of a JSON object sent with POST
\* or PUT, when it is not empty.
PostedName(ev) ==
    IF ev.method \in {"POST", "PUT"} /\ ev.body.kind = "object"
       /\ ev.body.name \notin {NoName, ""}
    THEN ev.body.name ELSE NoName

PostedVolume(ev) ==
    IF ev.method \in {"POST", "PUT"} /\ ev.body.kind = "object"
    THEN ev.body.volume ELSE NoVolume

\* C17, as stated: for every method and every body the handler does not
\* raise and calls the webhook forecast with the posted name if it is
\* non-empty, else the webhook's configured personal name, and with the
\* posted volume if given, else none; GET and HEAD never read a body.
C17_AsStated ==
    \A k \in 1..Len(hook_log) :
        LET ev == hook_log[k] IN
        /\ ~ev.raised
        /\ ev.called
        /\ ev.name = IF PostedName(ev) # NoName THEN PostedName(ev) ELSE hook_names[ev.id]
        /\ ev.volume = PostedVolume(ev)
        /\ ev.method \in {"GET", "HEAD"} => ~ev.body_read

\* C18, as stated: every request to the webhook with id w stores the
\* request's time under w, whether or not anything is announced, and
\* leaves the entry of every other id as it was.
C18_AsStated ==
    \A k \in 1..Len(hook_log) :
        LET ev == hook_log[k] IN
        /\ ev.after[ev.id] = ev.at
        /\ \A o \in WebhookIds \ {ev.id} : ev.after[o] = ev.before[o]

\* The ids of the entries of the configured webhook list that are enabled
\* and have an id.
ListedIds(cfg) ==
    {cfg.hooks.list[i].id : i \in {j \in 1..Len(cfg.hooks.list) :
        cfg.hooks.list[j].enabled /\ cfg.hooks.list[j].id # ""}}

NoDuplicates(q) == \A i, j \in 1..Len(q) : q[i] = q[j] => i = j

\* C19: _registered_webhooks always holds exactly the ids registered in the
\* host, each once; and after an async_setup with the webhook trigger on
\* (and no arming failure before it) the registered ids are the
\* ids of the enabled list entries with an id, or, when the list is empty,
\* the legacy id alone, its handler made with the legacy personal name.
C19_WebhookGate ==
    /\ Range(registered_webhooks) = host_webhooks
    /\ NoDuplicates(registered_webhooks)
    /\ (/\ LastOp = "setup"
        /\ ~setup_outcome.raised
        /\ life_cfg.enabled
        /\ "webhook" \in life_cfg.kinds) =>
          IF life_cfg.hooks.list # <<>>
          THEN host_webhooks = ListedIds(life_cfg)
          ELSE IF life_cfg.hooks.legacy # ""
          THEN /\ host_webhooks = {life_cfg.hooks.legacy}
               /\ handler_names[life_cfg.hooks.legacy] = LegacyName
          ELSE host_webhooks = {}

\* async_setup ran with a list holding a disabled entry, an enabled one and
\* one without id, and registered the enabled one alone.
C19_Witness ==
    /\ life_ops = <<"setup">>
    /\ ~setup_outcome.raised
    /\ Len(life_cfg.hooks.list) = 3
    /\ "webhook" \in life_cfg.kinds
    /\ registered_webhooks = <<"w2">>
    /\ host_webhooks = {"w2"}
    /\ handler_names["w2"] = "Bo"

\* The first of output, text and result that the response holds with a
\* non-empty value.
FirstPresent(r) ==
    IF r.output \notin {Missing, ""} THEN r.output
    ELSE IF r.text \notin {Missing, ""} THEN r.text
    ELSE r.result

\* The rewrite succeeded with a text: the flag is on, a target is set, the
\* call returned a dict and its first present field is a string.
RewriteSucceeded ==
    /\ ai_cfg.use_ai_rewrite
    /\ ai_cfg.ai_task_entity
    /\ ai_cfg.response.kind = "dict"
    /\ FirstPresent(ai_cfg.response) \notin {Missing, "", NonString}

\* C20, as stated: the message handed on is the rewrite's text when the
\* rewrite succeeded with one and the original message in every other
\* case; and for a non-blank original message the delivery runs in every
\* case, for every sink with an entity id and a TTS target.
C20_AsStated ==
    d_pc = "done" =>
        /\ final_message = IF RewriteSucceeded THEN FirstPresent(ai_cfg.response)
                           ELSE original
        /\ ~IsBlank(original) =>
              SinkCalls = ExpectedCalls(1, WithEntityAndTtsTarget)

\* C21: the volume_level of every volume_set call of send_tts is the volume
\* override when one is given (an override of 0 included), else the sink's
\* own volume when it has one, else the default 0.6.
C21_EffectiveVolume ==
    \A k \in 1..Len(volume_levels) :
        LET mp == sinks[volume_levels[k].sink]
            level == volume_levels[k].volume_level IN
        /\ volume_override # NoVolume => level = volume_override
        /\ volume_override = NoVolume /\ mp.volume # NoVolume => level = mp.volume
        /\ volume_override = NoVolume /\ mp.volume = NoVolume => level = DefaultVolume

\* An override of 0 reached a sink that has a volume of its own.
C21_Witness ==
    /\ volume_override = 0
    /\ \E k \in 1..Len(volume_levels) :
          /\ sinks[volume_levels[k].sink].volume = 30
          /\ volume_levels[k].volume_level = 0

\* The place of a call in a sink's turn.
StepRank(kind) ==
    CASE kind = "volume" -> 1
      [] kind = "preroll" -> 2
      [] kind = "speak" -> 3
      [] kind = "delay" -> 4

\* C22: within one send_tts the sinks are served in configured order; a
\* sink's calls come in the order volume_set, preroll wait, speak, each
\* speak after that sink's volume_set; and no call for a later sink is made
\* before the earlier sink's speak call has returned or raised.
C22_OrderWithinFiring ==
    /\ \A j, k \in 1..Len(call_log) :
          j < k =>
            /\ call_log[j].sink <= call_log[k].sink
            /\ call_log[j].sink = call_log[k].sink =>
                  StepRank(call_log[j].kind) < StepRank(call_log[k].kind)
            /\ call_log[j].sink < call_log[k].sink =>
                  \E m \in 1..(k - 1) :
                      /\ call_log[m].sink = call_log[j].sink
                      /\ call_log[m].kind = "speak"
    /\ \A k \in 1..Len(call_log) :
          call_log[k].kind \in {"preroll", "speak"} =>
            \E j \in 1..(k - 1) :
                /\ call_log[j].sink = call_log[k].sink
                /\ call_log[j].kind = "volume"

\* A finished send_tts over three sinks in which the first sink's speak
\* call raised, a skipped sink lies between, and the last sink was served
\* with its preroll wait.
C22_Witness ==
    /\ d_pc = "done"
    /\ Len(sinks) = 3
    /\ ~Processed(sinks[2])
    /\ \E j, k, m \in 1..Len(call_log) :
          /\ j < k /\ k < m
          /\ call_log[j] = [kind |-> "speak", sink |-> 1, ok |-> FALSE]
          /\ call_log[k].sink = 3 /\ call_log[k].kind = "preroll"
          /\ call_log[m].sink = 3 /\ call_log[m].kind = "speak"

\* The calls task f has made so far, as positions in the log.
CallsOf(f) == {k \in 1..Len(overlap_log) : overlap_log[k].firing = f}

InDelivery(f) == firings[f].pc \in {"volume", "preroll", "speak", "delay"}

\* C23: two firings that overlap are not mutually excluded: while one
\* announcement is between its sink calls the other trigger can still fire,
\* and a task suspended in a sink call can go on whatever the other task does.
C23_NoMutualExclusion ==
    \A f \in Firings : \A g \in Firings \ {f} :
        /\ InDelivery(f) /\ firings[g].pc = "none" => ENABLED Fire(g)
        /\ InDelivery(f) /\ InDelivery(g) => ENABLED FiringCall(f) /\ ENABLED FiringCall(g)

\* A sink call of the webhook forecast lies between the first and the last
\* sink call of a finished scheduled forecast.
C23_Witness ==
    /\ firings["scheduled"].pc = "done"
    /\ \E j, m \in CallsOf("scheduled") : \E k \in CallsOf("webhook") :
          /\ j < k /\ k < m
          /\ overlap_log[j].kind = "volume"
          /\ overlap_log[m].kind = "speak"

\* C24: once an async_unload has completed, and until the next
\* async_setup, no timer tick, state-change event or webhook request starts
\* an announcement; async_unload itself leaves every announcement task as
\* it is, and a task that has calls left can make its next one.
C24_CancellationOnStop ==
    [][/\ (LastOp = "unload" /\ life_ops' = life_ops) => Len(tasks') = Len(tasks)
       /\ life_ops' = Append(life_ops, "unload") => tasks' = tasks
       /\ (\E k \in 1..Len(tasks) : tasks[k].left > 0) => ENABLED TaskCall]_vars

\* async_setup armed triggers, an announcement started, async_unload
\* completed; the event delivered after it started nothing, and the
\* announcement made its last sink call after the unload.
C24_Witness ==
    /\ LastOp = "unload"
    /\ PrevOp = "setup"
    /\ last_event.at = Len(life_ops) + 1
    /\ last_event.started = 0
    /\ \E k \in 1..Len(tasks) :
          /\ tasks[k].born < Len(life_ops)
          /\ tasks[k].last_call = Len(life_ops)
          /\ tasks[k].left = 0

\* The text _normalize_condition gives for a condition that is not there.
Placeholder == "current conditions"

\* C25: whatever sub-fact the snapshot lacks (current = None, an empty
\* hourly or daily list, no temperature, no condition), both builders
\* return a message, and no sentence of it stands for the absent fact.
C25_AsStated ==
    built.builder # "none" =>
        /\ ~built.raised
        /\ \A k \in 1..Len(built.parts) : built.parts[k].cond # Placeholder

\* The same for the snapshots whose current is not None, whose conditions
\* are all there and whose hourly times carry an offset.
C25_WhenConditionsPresent ==
    (/\ built.builder # "none"
     /\ snapshot.current.present
     /\ snapshot.current.condition # Missing \/ snapshot.current.state # Missing
     /\ \A k \in 1..Len(snapshot.daily_forecast) :
            snapshot.daily_forecast[k].condition # Missing
     /\ \A k \in 1..Len(snapshot.hourly_forecast) :
            /\ snapshot.hourly_forecast[k].aware
            /\ snapshot.hourly_forecast[k].cond # Missing)
    => /\ ~built.raised
       /\ \A k \in 1..Len(built.parts) : built.parts[k].cond # Placeholder

\* The future entries of the hourly forecast with probability >= threshold.
FutureWet ==
    SelectSeq(snapshot.hourly_forecast,
              LAMBDA h : h.t > msg_now /\ h.prob >= precip_threshold)

PrecipParts == SelectSeq(built.parts, LAMBDA p : p.kind = "precip")

\* What is said of hourly entry h.
Describes(p, h) ==
    /\ p.cond = NormalizeCondition(h.cond)
    /\ p.prob = h.prob
    /\ p.phrase = TimeDescription(h.t, msg_now).phrase
    /\ p.at = TimeDescription(h.t, msg_now).at

\* C26: for every hourly forecast in chronological order (current being
\* there), build_scheduled_forecast returns a message that has the
\* precipitation sentence exactly when some future entry has probability >=
\* threshold, and the sentence describes the first such entry.
C26_AsStated ==
    built.builder = "scheduled" /\ snapshot.current.present =>
        /\ ~built.raised
        /\ Len(PrecipParts) = (IF FutureWet # <<>> THEN 1 ELSE 0)
        /\ FutureWet # <<>> => Describes(PrecipParts[1], FutureWet[1])

\* The same for the forecasts of at most ScanLimit entries whose times
\* all carry an offset.
C26_WithinScanLimit ==
    (/\ built.builder = "scheduled" /\ snapshot.current.present
     /\ Len(snapshot.hourly_forecast) <= ScanLimit
     /\ \A k \in 1..Len(snapshot.hourly_forecast) : snapshot.hourly_forecast[k].aware)
    => /\ ~built.raised
       /\ Len(PrecipParts) = (IF FutureWet # <<>> THEN 1 ELSE 0)
       /\ FutureWet # <<>> => Describes(PrecipParts[1], FutureWet[1])

SaysNoPrecipitation == \E k \in 1..Len(built.parts) : built.parts[k] = NoPrecipitation

\* C27: build_webhook_message (current being there) returns a message
\* that holds "No precipitation expected today." exactly when no future
\* hourly entry has probability >= threshold, and the precipitation-timing
\* sentence otherwise.
C27_AsStated ==
    built.builder = "webhook" /\ snapshot.current.present =>
        /\ ~built.raised
        /\ SaysNoPrecipitation <=> FutureWet = <<>>
        /\ Len(PrecipParts) = (IF FutureWet # <<>> THEN 1 ELSE 0)

\* The same for the forecasts of at most ScanLimit entries whose times
\* all carry an offset.
C27_WithinScanLimit ==
    (/\ built.builder = "webhook" /\ snapshot.current.present
     /\ Len(snapshot.hourly_forecast) <= ScanLimit
     /\ \A k \in 1..Len(snapshot.hourly_forecast) : snapshot.hourly_forecast[k].aware)
    => /\ ~built.raised
       /\ SaysNoPrecipitation <=> FutureWet = <<>>
       /\ Len(PrecipParts) = (IF FutureWet # <<>> THEN 1 ELSE 0)

\* The English words of 1..19 and of the tens.
Units == <<"one", "two", "three", "four", "five", "six", "seven", "eight", "nine", "ten",
           "eleven", "twelve", "thirteen", "fourteen", "fifteen", "sixteen", "seventeen",
           "eighteen", "nineteen">>
Tens == <<"ten", "twenty", "thirty", "forty", "fifty", "sixty", "seventy", "eighty", "ninety">>

\* The table of 0..100.
English(n) ==
    IF n = 0 THEN "zero"
    ELSE IF n = 100 THEN "one hundred"
    ELSE IF n < 20 THEN Units[n]
    ELSE IF n % 10 = 0 THEN Tens[n \div 10]
    ELSE Tens[n \div 10] \o " " \o Units[n % 10]

\* C28: _spell_number gives the table's words for 0..100, "<hundreds word>
\* hundred" followed by the words of the remainder, if it is not zero, for
\* 101..999, and the digits from 1000 on.
C28_NumberToWords ==
    arg.fn = "number" /\ spoken # NotSpoken =>
        LET n == arg.a IN
        /\ n <= 100 => spoken.text = English(n)
        /\ 100 < n /\ n < 1000 /\ n % 100 = 0 =>
              spoken.text = Units[n \div 100] \o " hundred"
        /\ 100 < n /\ n < 1000 /\ n % 100 # 0 =>
              spoken.text = Units[n \div 100] \o " hundred " \o English(n % 100)
        /\ n >= 1000 => spoken.text = Str(n)

\* 103 was spelled "one hundred three".
C28_Witness ==
    /\ arg.fn = "number"
    /\ arg.a = 103
    /\ spoken.text = "one hundred three"

\* C29: _spell_time gives the 12-hour spoken form: the word of the hour
\* (hour mod 12, twelve for 0), nothing for minute 0, "oh <minute>" for a
\* minute below 10, the minute's words otherwise, then AM before noon and
\* PM from noon on.
C29_TimeToWords ==
    arg.fn = "time" /\ spoken # NotSpoken =>
        LET hour == arg.a
            minute == arg.b
            hourWord == English(((hour + 11) % 12) + 1)
            minutePhrase == IF minute = 0 THEN ""
                            ELSE IF minute < 10 THEN " oh " \o English(minute)
                            ELSE " " \o English(minute)
            period == IF hour < 12 THEN " AM" ELSE " PM"
        IN  spoken.text = hourWord \o minutePhrase \o period

\* 00:03 was spoken "twelve oh three AM".
C29_Witness ==
    /\ arg.fn = "time"
    /\ arg.a = 0 /\ arg.b = 3
    /\ spoken.text = "twelve oh three AM"

\* The multiple of 5 nearest to m.
NearestFive(m) ==
    CHOOSE k \in {5 * j : j \in 0..(m \div 5 + 1)} :
        \A l \in {5 * j : j \in 0..(m \div 5 + 1)} :
            (IF k > m THEN k - m ELSE m - k) <= (IF l > m THEN l - m ELSE m - l)

\* C30: the time phrase of build_upcoming_change_message is "very soon"
\* below 5 minutes, the exact minute count from 5 to 14, the minute count
\* rounded to the nearest multiple of 5 from 15 to 59, and from 60 on the
\* whole hours, with "hour" for 1 and "hours" otherwise.
C30_TimePhraseBuckets ==
    arg.fn = "upcoming" /\ spoken # NotSpoken =>
        LET m == arg.a IN
        /\ m < 5 => spoken.phrase = "very soon"
        /\ 5 <= m /\ m < 15 => spoken.phrase = "in about " \o English(m) \o " minutes"
        /\ 15 <= m /\ m < 60 =>
              spoken.phrase = "in about " \o English(NearestFive(m)) \o " minutes"
        /\ 60 <= m /\ m < 120 => spoken.phrase = "in about one hour"
        /\ 120 <= m => spoken.phrase = "in about " \o English(m \div 60) \o " hours"

\* 58 minutes were spoken "in about sixty minutes".
C30_Witness ==
    /\ arg.fn = "upcoming"
    /\ arg.a = 58
    /\ spoken.phrase = "in about sixty minutes"
    /\ spoken.text = "weather alert. Rainy expected in about sixty minutes with a thirty percent chance."


(***************************************************************************)
(* C31: time-based trigger of HomeWeatherAutomation.  For every tick and   *)
(* every stored configuration with the time-based flag on and an hour      *)
(* pattern "*/N", check_schedule announces iff the weekday is in           *)
(* days_of_week, the tick's hour and minute lie within [start, end] with   *)
(* the end minute itself included, hour % N = 0 and minute = offset; an    *)
(* error in the check is caught and gives no announcement.                 *)
(***************************************************************************)
MinuteWithin(cfg, t) ==
    LET cur == t.hour * 60 + t.minute
    IN  /\ cfg.start_time[1] * 60 + cfg.start_time[2] <= cur
        /\ cur <= cfg.end_time[1] * 60 + cfg.end_time[2]

C31_AsStated ==
    (/\ schedule_outcome # NotChecked
     /\ stored_schedule.enable_time_based
     /\ stored_schedule.hour_pattern.prefixed)
    => (schedule_outcome = "announce"
        <=> /\ day_names[interval_now.weekday + 1] \in stored_schedule.days_of_week
            /\ MinuteWithin(stored_schedule, interval_now)
            /\ stored_schedule.hour_pattern.interval # 0
            /\ interval_now.hour % stored_schedule.hour_pattern.interval = 0
            /\ interval_now.minute = stored_schedule.minute_offset)

\* The same with the ticks that fall on second 0 of their minute only:
\* this holds.
C31_OnTheMinute ==
    interval_now.second = 0 => C31_AsStated


(***************************************************************************)
(* C32: async_stop of HomeWeatherAutomation tolerates release failures.    *)
(* After an async_stop, whether or not a release raised, async_stop has    *)
(* not raised, every listener has been released, the listener list is      *)
(* empty and the engine is stopped with no armed handle.                   *)
(***************************************************************************)
C32_AsStated ==
    (auto_ops # <<>> /\ auto_ops[Len(auto_ops)] = "stop")
    => /\ ~auto_raised
       /\ ~is_running
       /\ listeners = <<>>
       /\ auto_subs = {}


(***************************************************************************)
(* C33: overlapping polls.  Poll tasks that are in flight at once,         *)
(* suspended in their dispatch, hold different forecast-hour keys, and the *)
(* key of every dispatch started is in _upcoming_alert_fired as long as    *)
(* its hour is not more than two hours back: no clean-up of another task   *)
(* takes it out.                                                           *)
(***************************************************************************)
C33_OverlappingPolls ==
    /\ \A a, b \in poll_tasks : a.key = b.key => a = b
    /\ \A task \in poll_tasks : task.key \in upcoming_alert_fired
    /\ \A d \in precip_dispatched :
          KeyTime(d.key).t > now - PurgeHours * MinutesPerHour
              => d.key \in upcoming_alert_fired

\* A task started while an earlier one was suspended is still in flight
\* after the earlier one ran its clean-up, and its key is still there.
C33_Witness ==
    \E task \in poll_tasks :
        /\ task.now = now
        /\ poll_outcome = "raised"
        /\ task.key \in upcoming_alert_fired
        /\ \E d \in precip_dispatched : d.key # task.key /\ d.now < now


(***************************************************************************)
(* C34: fired keys reflect delivered alerts.  A forecast-hour key whose    *)
(* dispatch has returned is in _upcoming_alert_fired only if the           *)
(* announcement was spoken on at least one sink, which takes a sink that   *)
(* send_tts does not skip.                                                 *)
(***************************************************************************)
C34_AsStated ==
    \A key \in upcoming_alert_fired :
        (\A task \in poll_tasks : task.key # key)
            => \E i \in 1..Len(sinks) : Processed(sinks[i])


(***************************************************************************)
(* C36: the dedup value tracks the weather entity.  After any sequence of  *)
(* state-change events since the set-up, events with an absent old or new  *)
(* state included, _last_condition is the condition of the entity's most   *)
(* recent state, and no event whose new condition differs from its old     *)
(* one was suppressed.                                                     *)
(***************************************************************************)
C36_AsStated ==
    (change_armed /\ change_log # <<>>)
    => /\ weather_state # NoState => last_condition = weather_state
       /\ \A i \in 1..Len(change_log) :
             LET ev == change_log[i]
             IN  (ev.old # NoState /\ ev.new # NoState /\ ev.old # ev.new) => ev.fired

\* The same for the runs in which every event carries both states: this
\* holds.
C36_BothStatesPresent ==
    (\A i \in 1..Len(change_log) :
        change_log[i].old # NoState /\ change_log[i].new # NoState)
    => C36_AsStated


(***************************************************************************)
(* C35: a reload keeps the dedup state.  No async_unload and no            *)
(* async_setup changes _upcoming_alert_fired, and no forecast-hour key is  *)
(* dispatched twice, so a key announced before a reload is not announced   *)
(* again after it.                                                         *)
(***************************************************************************)
C35_ReloadKeepsDedup ==
    /\ [](\A a, b \in precip_dispatched : a.key = b.key => a = b)
    /\ [][life_ops' # life_ops => upcoming_alert_fired' = upcoming_alert_fired]_vars

\* After set-up, unload and set-up again, the second set-up having found a
\* key, a later poll ran with that key's hour still in its window.
C35_Witness ==
    /\ life_ops = <<"setup", "unload", "setup">>
    /\ \E h \in host_subs : h.kind = "upcoming"
    /\ now > setup_seen.now
    /\ poll_outcome = "raised"
    /\ \E d \in precip_dispatched :
          /\ d.key \in setup_seen.fired
          /\ d.key \in upcoming_alert_fired
          /\ now < d.t /\ d.t <= now + minutes_before


(***************************************************************************)
(* C37: fire-time enable check of HomeWeatherAutomation.  A handler that   *)
(* fires while the enable flag of its trigger kind is off in the stored    *)
(* configuration announces nothing, whatever the configuration was when    *)
(* it was installed.                                                       *)
(***************************************************************************)
C37_FireTimeEnableCheck ==
    last_fire.announced => last_fire.enabled

\* The sensor handler, still installed, fired for a sensor that went on
\* after a save had switched its flag off, and announced nothing.
C37_Witness ==
    /\ last_fire = [kind |-> "sensor", due |-> TRUE, enabled |-> FALSE,
                    announced |-> FALSE]
    /\ \E h \in auto_subs : h.kind = "sensor"
    /\ ~auto_cfg.enable_sensor_triggered


(***************************************************************************)
(* C38: start after late configuration.  When the first async_start ran    *)
(* while the integration was not configured, and a second async_start is   *)
(* made after the save that completed the configuration, with no           *)
(* async_stop in between and no save after it, every trigger kind enabled  *)
(* in the configuration is armed.                                          *)
(***************************************************************************)
C38_AsStated ==
    (/\ auto_ops = <<"start", "start">>
     /\ completed_at = 1
     /\ last_save_at = 1
     /\ ~auto_raised)
    => \A k \in 1..Len(ListenerKinds(auto_cfg)) :
          \E h \in auto_subs : h.kind = ListenerKinds(auto_cfg)[k]


\* The same with an async_stop between the two starts: this holds.
C38_WithStopBetween ==
    (/\ auto_ops = <<"start", "stop", "start">>
     /\ completed_at \in {1, 2}
     /\ last_save_at = completed_at
     /\ ~auto_raised)
    => \A k \in 1..Len(ListenerKinds(auto_cfg)) :
          \E h \in auto_subs : h.kind = ListenerKinds(auto_cfg)[k]


(***************************************************************************)
(* C39: a failed save changes nothing.  When async_save raises, from its   *)
(* validation or from the store write, a following async_get returns the   *)
(* configuration from before the call, and the triggers are not reloaded.  *)
(***************************************************************************)
C39_AsStated ==
    last_save.error \notin {"no call", "none"}
    => /\ AsyncGet = last_save.before
       /\ reloads = last_save.reloads_before

\* The same for the saves that fail in the validation: this holds.
C39_ValidationFailure ==
    last_save.error \notin {"no call", "none", "write failed"}
    => /\ AsyncGet = last_save.before
       /\ reloads = last_save.reloads_before

====
